---- MODULE Spec2Model ----
(***************************************************************************)
(* A model of the jarvis assistant's stateful core:                        *)
(*   - memory/long_term.py     LongTermMemory, the versioned fact store    *)
(*   - brain/api_manager.py    APIManager, the durable credential pool     *)
(*   - brain/llm_utils/key_manager.py and                                  *)
(*     brain/llm_clients/openai_client.py   the key rotation engine        *)
(* Each subsystem has its own variables and its own specifications; a      *)
(* specification leaves the other subsystems' variables untouched.         *)
(*                                                                         *)
(* Time.  datetime.now() / time.time() are read from an integer clock.     *)
(* sqlite3 stores a datetime through str(), "YYYY-MM-DD HH:MM:SS[.ffffff]",*)
(* and compares the stored text; for naive datetimes that text order is    *)
(* the chronological order, so the fact store's timestamps are compared as *)
(* integers.  The pool formats with strftime("%Y-%m-%d %H:%M:%S"), which   *)
(* drops the sub-second part: that conversion is modelled (FormatReset).   *)
(***************************************************************************)
EXTENDS Integers, Sequences, FiniteSets, TLC

\* ------------------------------------------------------------------ bounds
MaxTime == 2
MaxRows == 3
MaxRowsAt == 2
MaxRowsConc == 2

\* ------------------------------------------------------------------- state
\* The wall clock of the stores: datetime.now().
VARIABLE now
\* LongTermMemory: the facts table; what the last call returned; for callers
\* on separate connections, where each add_fact stands and its arguments;
\* what the store path and the backup path hold.
VARIABLES rows, ret, wpc, wargs, disk
\* APIManager: the api_keys table; what the last call returned.
VARIABLES keys, pret
\* OpenAIClient and its KeyManager and TokenTracker: keys_state,
\* current_index, last_request_time, tokens_used_today; time.time(); where
\* chat_completion stands and how the last call ended; the dispatches made so
\* far and the number of chat_completion calls.
VARIABLES keys_state, current_index, last_request_time, tokens_used_today,
          clock, epc, eres, dlog, ncalls
\* The memory front-end: what the last call of remember_fact / recall_fact
\* gave back.
VARIABLE freply
\* The chat logger: the list objects it has made, the one current_session is
\* bound to, the auto-save worker's position and locals, the last file.
VARIABLES heap, current_session, worker, saved
\* The chat logger's _stop_auto_save flag, and where the thread that calls
\* the logger is.
VARIABLES stop_auto_save, main
\* Callers of get_next_available_key on connections of their own: where each
\* is in the call and the row its SELECT returned.
VARIABLE sel
\* What the clients that get_llm_response made and dropped had excluded: for
\* each key, the latest cooldown_until and whether it was marked bad.
VARIABLE carried

factVars == <<rows, ret, wpc, wargs, disk>>
poolVars == <<keys, pret>>
engVars == <<keys_state, current_index, last_request_time, tokens_used_today,
             clock, epc, eres, dlog, ncalls>>
frontVars == <<freply>>
logVars == <<heap, current_session, worker, saved, stop_auto_save, main>>
selVars == <<sel>>
carryVars == <<carried>>
vars == <<now, factVars, poolVars, engVars, frontVars, logVars, selVars, carryVars>>

\* What an operation of one subsystem leaves alone.
notFacts == <<poolVars, engVars, frontVars, logVars, selVars, carryVars>>
notPool == <<factVars, engVars, frontVars, logVars, selVars, carryVars>>
notEngine == <<now, factVars, poolVars, frontVars, logVars, selVars, carryVars>>
notLogger == <<now, factVars, poolVars, engVars, frontVars, selVars, carryVars>>

\* ------------------------------------------------------------- fact store
\* SQL NULL in a DATETIME column (valid_until DATETIME, no NOT NULL).
NULL == 0 - 1
\* Python's None passed as the value argument / returned by a getter.
None == "<None>"

Keys == {<<"user", "color">>, <<"user", "x">>}
Values == {"blue", "red"}
Times == 0..MaxTime
Writers == {"w1", "w2"}

\* The result of a getter that found no row.
NoFact == [value |-> None, valid_from |-> NULL, valid_until |-> NULL]

RowsOf(rs, k) == {i \in 1..Len(rs) : rs[i].key = k}
CurrentOf(rs, k) == {i \in RowsOf(rs, k) : rs[i].valid_until = NULL}

\* UPDATE facts SET valid_until = ? WHERE subject = ? AND attribute = ?
\*   AND valid_until IS NULL
CloseCurrentNoop(rs, k, t) == rs
CloseCurrent(rs, k, t) ==
    [i \in 1..Len(rs) |->
        IF rs[i].key = k /\ rs[i].valid_until = NULL
        THEN [rs[i] EXCEPT !.valid_until = t]
        ELSE rs[i]]

\* INSERT INTO facts (subject, attribute, value, valid_from, valid_until)
\*   VALUES (?, ?, ?, ?, NULL); the new row gets the next id.
InsertRow(rs, k, v, t) ==
    Append(rs, [key |-> k, value |-> v, valid_from |-> t, valid_until |-> NULL])

\* value TEXT NOT NULL: the INSERT of a None value raises sqlite3.IntegrityError,
\* a subclass of sqlite3.DatabaseError.
InsertRejected(v) == v = None

\* _recreate_database: the store file is removed and the tables are created
\* again: every row is gone.
recreate_database == <<>>

\* What a path holds: nothing, a store sqlite reads without complaint, bytes
\* that are no sqlite file at all, or a sqlite file with a damaged page.
FileKinds == {"absent", "store", "not_a_database", "damaged"}

\* __init__ done on a path that held nothing: a new store, no backup.
NewDisk == [file |-> "store", backup |-> "absent", found |-> "absent", opened |-> TRUE]

\* _backup_corrupted_database and the rest of _recreate_database, seen from
\* the paths: the backup path gets a copy of the file that is there (an
\* older backup is replaced), the file is removed and _init_tables makes a
\* new store.
Recreated(d) ==
    [d EXCEPT !.backup = IF d.file = "absent" THEN d.backup ELSE d.file,
              !.file = "store"]

\* valid_from = valid_from or datetime.now()
EffectiveFrom(vf) == IF vf = NULL THEN now ELSE vf

\* get_current_fact: the rows the SELECT ... WHERE valid_until IS NULL
\* ORDER BY valid_from DESC LIMIT 1 may return (ties in valid_from are
\* returned in an order SQL does not fix).
get_current_fact(rs, k) ==
    LET cur == CurrentOf(rs, k)
        top == {i \in cur : \A j \in cur : rs[j].valid_from <= rs[i].valid_from}
    IN  IF cur = {} THEN {NoFact}
        ELSE {[value |-> rs[i].value, valid_from |-> rs[i].valid_from,
               valid_until |-> NULL] : i \in top}

\* get_fact_at_time: WHERE valid_from <= ? AND (valid_until >= ? OR
\* valid_until IS NULL) ORDER BY valid_from DESC LIMIT 1.
MatchesAt(r, t) ==
    r.valid_from <= t /\ (r.valid_until = NULL \/ r.valid_until >= t)

get_fact_at_time_unordered(rs, k, t) ==
    LET hit == {i \in RowsOf(rs, k) : MatchesAt(rs[i], t)}
    IN  IF hit = {} THEN {NoFact}
        ELSE {[value |-> rs[i].value, valid_from |-> rs[i].valid_from,
               valid_until |-> rs[i].valid_until] : i \in hit}
get_fact_at_time(rs, k, t) ==
    LET hit == {i \in RowsOf(rs, k) : MatchesAt(rs[i], t)}
        top == {i \in hit : \A j \in hit : rs[j].valid_from <= rs[i].valid_from}
    IN  IF hit = {} THEN {NoFact}
        ELSE {[value |-> rs[i].value, valid_from |-> rs[i].valid_from,
               valid_until |-> rs[i].valid_until] : i \in top}

\* What the last call returned, for the claims to read: the operation, its
\* key, add_fact's success flag, a getter's fact and, for get_current_fact,
\* how many current rows and rows the key had in the store when it ran.
NoRet == [op |-> "none", key |-> <<"", "">>, ok |-> TRUE, fact |-> NoFact,
          ncur |-> 0, nrows |-> 0, at |-> NULL, error |-> FALSE, history |-> <<>>]

NoArgs == [key |-> <<"", "">>, value |-> None, valid_from |-> NULL]

FactsIdle ==
    /\ rows = <<>>
    /\ ret = NoRet
    /\ wpc = [w \in Writers |-> "idle"]
    /\ wargs = [w \in Writers |-> NoArgs]
    /\ disk = NewDisk

\* The wall clock moves on.
Tick ==
    /\ now < MaxTime
    /\ now' = now + 1
    /\ UNCHANGED <<factVars, poolVars, engVars, frontVars, logVars, selVars, carryVars>>

\* add_fact run to completion with no other access to the store in between:
\* the close-current UPDATE commits, then the INSERT commits; an INSERT that
\* raises DatabaseError makes _execute_safe re-create the store and return False.
add_fact(k, v, vf) ==
    LET t == EffectiveFrom(vf)
        closed == CloseCurrent(rows, k, t)
    IN  /\ rows' = IF InsertRejected(v) THEN recreate_database
                   ELSE InsertRow(closed, k, v, t)
        /\ disk' = IF InsertRejected(v) THEN Recreated(disk) ELSE disk
        /\ ret' = [NoRet EXCEPT !.op = "add_fact", !.key = k,
                                !.ok = ~InsertRejected(v)]
        /\ UNCHANGED <<now, wpc, wargs, notFacts>>

\* get_current_fact as a call.
GetCurrent(k) ==
    /\ \E f \in get_current_fact(rows, k) :
          ret' = [NoRet EXCEPT !.op = "get_current_fact", !.key = k, !.fact = f,
                               !.ncur = Cardinality(CurrentOf(rows, k)),
                               !.nrows = Cardinality(RowsOf(rows, k))]
    /\ UNCHANGED <<rows, now, wpc, wargs, disk, notFacts>>

\* get_fact_at_time as a call.
GetAtTime(k, t) ==
    /\ \E f \in get_fact_at_time(rows, k, t) :
          ret' = [NoRet EXCEPT !.op = "get_fact_at_time", !.key = k, !.fact = f,
                               !.at = t]
    /\ UNCHANGED <<rows, now, wpc, wargs, disk, notFacts>>

\* One caller at a time: add_fact and get_current_fact.
FactsNext ==
    \/ Tick
    \/ \E k \in Keys, v \in Values \cup {None}, vf \in Times \cup {NULL} :
          Len(rows) < MaxRows /\ add_fact(k, v, vf)
    \/ \E k \in Keys : GetCurrent(k)


\* One caller at a time: add_fact and get_fact_at_time.
AtTimeNext ==
    \/ Tick
    \/ \E k \in Keys, v \in Values \cup {None}, vf \in Times \cup {NULL} :
          Len(rows) < MaxRowsAt /\ add_fact(k, v, vf)
    \/ \E k \in Keys, t \in Times : GetAtTime(k, t)


\* get_fact_history: SELECT value, valid_from, valid_until ... WHERE subject
\* = ? AND attribute = ? ORDER BY valid_from DESC -- the lists it may return
\* (rows equal in valid_from come in an order SQL does not fix).
MaxRowsHistory == 3
HistoryOrders(rs, k) ==
    LET S == RowsOf(rs, k)
    IN  {q \in [1..Cardinality(S) -> S] :
            /\ \A a, b \in 1..Cardinality(S) : a # b => q[a] # q[b]
            /\ \A a, b \in 1..Cardinality(S) :
                  a < b => rs[q[a]].valid_from >= rs[q[b]].valid_from}
get_fact_history(rs, k) ==
    {[n \in 1..Len(q) |-> [value |-> rs[q[n]].value, valid_from |-> rs[q[n]].valid_from,
                           valid_until |-> rs[q[n]].valid_until]] : q \in HistoryOrders(rs, k)}

\* get_fact_history as a call.
GetHistory(k) ==
    /\ \E h \in get_fact_history(rows, k) :
          ret' = [NoRet EXCEPT !.op = "get_fact_history", !.key = k, !.history = h]
    /\ UNCHANGED <<rows, now, wpc, wargs, disk, notFacts>>

\* One caller at a time: add_fact and get_fact_history.
HistoryNext ==
    \/ Tick
    \/ \E k \in Keys, v \in Values \cup {None}, vf \in Times \cup {NULL} :
          Len(rows) < MaxRowsHistory /\ add_fact(k, v, vf)
    \/ \E k \in Keys : GetHistory(k)

\* Two callers of add_fact and a reader on separate connections.  Each
\* _execute_safe call opens a connection, runs one statement and commits: the
\* UPDATE and the INSERT of one add_fact are two transactions, and the other
\* callers' statements may commit between them.
AddFactUpdate(w, k, v, vf) ==
    LET t == EffectiveFrom(vf)
    IN  /\ wpc[w] = "idle"
        /\ Len(rows) + Cardinality({x \in Writers : wpc[x] = "closed"}) < MaxRowsConc
        /\ rows' = CloseCurrent(rows, k, t)
        /\ wpc' = [wpc EXCEPT ![w] = "closed"]
        /\ wargs' = [wargs EXCEPT ![w] = [key |-> k, value |-> v, valid_from |-> t]]
        /\ UNCHANGED <<now, ret, disk, notFacts>>

AddFactInsert(w) ==
    LET a == wargs[w]
    IN  /\ wpc[w] = "closed"
        /\ rows' = IF InsertRejected(a.value) THEN recreate_database
                   ELSE InsertRow(rows, a.key, a.value, a.valid_from)
        /\ disk' = IF InsertRejected(a.value) THEN Recreated(disk) ELSE disk
        /\ ret' = [NoRet EXCEPT !.op = "add_fact", !.key = a.key,
                                !.ok = ~InsertRejected(a.value)]
        /\ wpc' = [wpc EXCEPT ![w] = "idle"]
        /\ wargs' = [wargs EXCEPT ![w] = NoArgs]
        /\ UNCHANGED <<now, notFacts>>

ConcNext ==
    \/ Tick
    \/ \E w \in Writers, k \in Keys, v \in Values \cup {None}, vf \in Times \cup {NULL} :
          AddFactUpdate(w, k, v, vf)
    \/ \E w \in Writers : AddFactInsert(w)
    \/ \E k \in Keys : GetCurrent(k)


\* One caller of add_fact and a reader on separate connections.
ReaderNext ==
    \/ Tick
    \/ \E k \in Keys, v \in Values \cup {None}, vf \in Times \cup {NULL} :
          AddFactUpdate("w1", k, v, vf)
    \/ AddFactInsert("w1")
    \/ \E k \in Keys : GetCurrent(k)


\* ------------------------------------------- fact store: files and errors
MaxRowsStore == 2

\* A row left in the store by an earlier run.
OldRow == [key |-> <<"user", "color">>, value |-> "red", valid_from |-> 0,
           valid_until |-> NULL]

\* Before __init__: the path holds nothing, or a store (empty or not), or
\* bytes that are no sqlite file, or a store with a damaged page.
StoreInit ==
    /\ \E f \in FileKinds :
          /\ disk = [file |-> f, backup |-> "absent", found |-> f, opened |-> FALSE]
          /\ rows \in IF f \in {"store", "damaged"} THEN {<<>>, <<OldRow>>} ELSE {<<>>}
    /\ ret = NoRet
    /\ wpc = [w \in Writers |-> "idle"]
    /\ wargs = [w \in Writers |-> NoArgs]

\* _is_database_corrupted: True exactly when connect or the execute of
\* PRAGMA integrity_check raises DatabaseError; the rows the pragma returns
\* are not read. Bytes that are no sqlite file make the execute raise; a
\* damaged page makes it raise or is reported in the pragma's rows.
is_database_corrupted(f) ==
    CASE f = "not_a_database" -> {TRUE}
      [] f = "damaged" -> {TRUE, FALSE}
      [] OTHER -> {FALSE}

\* _init_tables on a store whose damage the check did not raise on: CREATE
\* TABLE / INDEX IF NOT EXISTS raise DatabaseError (and _init_database
\* re-creates the store) or find the schema in place and do nothing.
InitTablesRaises(f) == IF f = "damaged" THEN {TRUE, FALSE} ELSE {FALSE}

\* LongTermMemory.__init__ -> _init_database
init_database ==
    /\ ~disk.opened
    /\ \E corrupted \in is_database_corrupted(disk.file),
          raises \in InitTablesRaises(disk.file) :
          IF disk.file # "absent" /\ (corrupted \/ raises)
          THEN /\ rows' = recreate_database
               /\ disk' = [Recreated(disk) EXCEPT !.opened = TRUE]
          ELSE /\ rows' = rows
               /\ disk' = [disk EXCEPT !.opened = TRUE,
                                       !.file = IF @ = "absent" THEN "store" ELSE @]
    /\ ret' = [NoRet EXCEPT !.op = "init"]
    /\ UNCHANGED <<now, wpc, wargs, notFacts>>

\* add_fact when the statements may fail: e1, e2 tell whether the UPDATE and
\* the INSERT raise sqlite3.DatabaseError (a damaged page, a locked file, an
\* I/O error). _execute_safe re-creates the store on each error; add_fact
\* goes on to the INSERT whatever the UPDATE did and returns the INSERT's
\* flag.
add_fact_errors(k, v, vf, e1, e2) ==
    LET t == EffectiveFrom(vf)
        rows1 == IF e1 THEN recreate_database ELSE CloseCurrent(rows, k, t)
        disk1 == IF e1 THEN Recreated(disk) ELSE disk
        failed == e2 \/ InsertRejected(v)
    IN  /\ disk.opened
        /\ rows' = IF failed THEN recreate_database ELSE InsertRow(rows1, k, v, t)
        /\ disk' = IF failed THEN Recreated(disk1) ELSE disk1
        /\ ret' = [NoRet EXCEPT !.op = "add_fact", !.key = k, !.ok = ~failed,
                                !.error = (e1 \/ e2)]
        /\ UNCHANGED <<now, wpc, wargs, notFacts>>

\* get_current_fact when the SELECT may raise sqlite3.DatabaseError.
get_current_fact_errors(k, e) ==
    /\ disk.opened
    /\ IF e
       THEN /\ rows' = recreate_database
            /\ disk' = Recreated(disk)
            /\ ret' = [NoRet EXCEPT !.op = "get_current_fact", !.key = k,
                                    !.error = TRUE]
       ELSE /\ \E f \in get_current_fact(rows, k) :
                  ret' = [NoRet EXCEPT !.op = "get_current_fact", !.key = k, !.fact = f,
                                       !.ncur = Cardinality(CurrentOf(rows, k)),
                                       !.nrows = Cardinality(RowsOf(rows, k))]
            /\ UNCHANGED <<rows, disk>>
    /\ UNCHANGED <<now, wpc, wargs, notFacts>>

\* get_fact_at_time when the SELECT may raise sqlite3.DatabaseError.
get_fact_at_time_errors(k, t, e) ==
    /\ disk.opened
    /\ IF e
       THEN /\ rows' = recreate_database
            /\ disk' = Recreated(disk)
            /\ ret' = [NoRet EXCEPT !.op = "get_fact_at_time", !.key = k, !.at = t,
                                    !.error = TRUE]
       ELSE /\ \E f \in get_fact_at_time(rows, k, t) :
                  ret' = [NoRet EXCEPT !.op = "get_fact_at_time", !.key = k,
                                       !.fact = f, !.at = t]
            /\ UNCHANGED <<rows, disk>>
    /\ UNCHANGED <<now, wpc, wargs, notFacts>>

StoreNext ==
    \/ Tick
    \/ init_database
    \/ \E k \in Keys, v \in Values \cup {None}, vf \in Times \cup {NULL}, e1, e2 \in BOOLEAN :
          (Len(rows) < MaxRowsStore \/ e1 \/ e2) /\ add_fact_errors(k, v, vf, e1, e2)
    \/ \E k \in Keys, e \in BOOLEAN : get_current_fact_errors(k, e)
    \/ \E k \in Keys, t \in Times, e \in BOOLEAN : get_fact_at_time_errors(k, t, e)

\* ------------------------------------------------------ memory front-end
MaxRowsFront == 2

\* What the user types, as its words. str.lower() is applied to the whole
\* input before the patterns are searched.
Lower(w) == IF w = "Blue" THEN "blue" ELSE w
LowerAll(ws) == [i \in 1..Len(ws) |-> Lower(ws[i])]

Inputs ==
    { <<"my", "color", "is", "Blue">>,
      <<"remember", "that", "my", "color", "is", "Blue">>,
      <<"remember", "that", "color", "is", "blue">>,
      <<"note", "that", "buy", "milk">>,
      <<"what", "is", "my", "color">>,
      <<"what", "is", "my", "color?">>,
      <<"what", "was", "my", "color", "before", "yesterday">> }

\* The regular expressions of manual_note_command and of
\* query_database_intelligently, in list order: each is the literal words
\* it starts with (one alternative per word sequence) followed by (.+).
note_patterns ==
    << {<<"note", "that">>, <<"note", "this">>, <<"note", "down">>},
       {<<"remember", "that">>, <<"remember", "this">>},
       {<<"store", "that">>, <<"store", "this">>, <<"store", "in", "database">>},
       {<<"save", "that">>, <<"save", "this">>, <<"save", "to", "memory">>},
       {<<"add", "to", "memory">>},
       {<<"put", "in", "database">>} >>
query_patterns ==
    << {<<"what", "is", "my">>, <<"what", "are", "my">>},
       {<<"do", "you", "know", "my">>},
       {<<"what", "did", "i", "tell", "you", "about", "my">>},
       {<<"recall", "my">>},
       {<<"what's", "my">>} >>

\* The literal words stand at position i and at least one word follows.
MatchAt(ws, i, lit) ==
    /\ i + Len(lit) <= Len(ws)
    /\ \A j \in 1..Len(lit) : ws[i + j - 1] = lit[j]

\* re.search(pattern, text): group(1) of the leftmost match, the words up to
\* the end of the text ((.+) is greedy: a closing "?" stays in the group);
\* <<>> when the pattern does not match.
Search(ws, alts) ==
    LET hits == {i \in 1..Len(ws) : \E lit \in alts : MatchAt(ws, i, lit)}
    IN  IF hits = {} THEN <<>>
        ELSE LET i == CHOOSE h \in hits : \A g \in hits : h <= g
                 lit == CHOOSE l \in alts : MatchAt(ws, i, l)
             IN  SubSeq(ws, i + Len(lit), Len(ws))

\* for pattern in patterns: the group of the first pattern that matches.
FirstGroup(ws, patterns) ==
    LET ok == {p \in 1..Len(patterns) : Search(ws, patterns[p]) # <<>>}
    IN  IF ok = {} THEN <<>>
        ELSE Search(ws, patterns[CHOOSE p \in ok : \A q \in ok : p <= q])

\* " is " in note_content, and note_content.split(" is ", 1): the word "is"
\* with a word before it and a word after it.
IsAt(content) == {i \in 2..(Len(content) - 1) : content[i] = "is"}
FirstIs(content) == CHOOSE i \in IsAt(content) : \A j \in IsAt(content) : i <= j

\* f"manual_note_{datetime.now().strftime('%Y%m%d_%H%M%S')}"
Stamp(t) == <<"manual_note_", <<"t0", "t1", "t2", "t3", "t4">>[t + 1]>>

\* The attribute and the value manual_note_command stores for a note.
NoteAttribute(content) ==
    IF IsAt(content) # {} THEN SubSeq(content, 1, FirstIs(content) - 1) ELSE Stamp(now)
NoteValue(content) ==
    IF IsAt(content) # {} THEN SubSeq(content, FirstIs(content) + 1, Len(content))
    ELSE content

NoReply == [op |-> "none", input |-> <<>>, kind |-> "none", attribute |-> <<>>,
            value |-> <<>>]
FrontIdle == freply = NoReply

\* JARVISMemoryManager.remember_fact, reached through the module-level
\* remember_fact: a note command stores a fact; otherwise a query is
\* answered from the store (the fuzzy search finds nothing:
\* LongTermMemory has no get_all_facts); otherwise nothing is detected.
\* Remembered gives the rows it leaves and the reply it returns.
Remembered(input) ==
    LET ws == LowerAll(input)
        note == FirstGroup(ws, note_patterns)
        query == FirstGroup(ws, query_patterns)
        nk == <<"user", NoteAttribute(note)>>
        qk == <<"user", query>>
    IN  IF note # <<>>
        THEN {[rows |-> InsertRow(CloseCurrent(rows, nk, now), nk, NoteValue(note), now),
               kind |-> "noted", attribute |-> nk[2], value |-> NoteValue(note)]}
        ELSE IF query # <<>>
        THEN IF CurrentOf(rows, qk) = {}
             THEN {[rows |-> rows, kind |-> "unknown", attribute |-> query, value |-> <<>>]}
             ELSE {[rows |-> rows, kind |-> "found", attribute |-> query, value |-> f.value] :
                      f \in get_current_fact(rows, qk)}
        ELSE {[rows |-> rows, kind |-> "nothing_detected", attribute |-> <<>>,
               value |-> <<>>]}

remember_fact(input) ==
    /\ \E o \in Remembered(input) :
          /\ o.kind = "noted" => Len(rows) < MaxRowsFront
          /\ rows' = o.rows
          /\ freply' = [op |-> "remember_fact", input |-> input, kind |-> o.kind,
                        attribute |-> o.attribute, value |-> o.value]
    /\ UNCHANGED <<now, ret, wpc, wargs, disk, poolVars, engVars, logVars, selVars, carryVars>>

\* The module-level recall_fact the dispatcher imports: the second def of
\* that name replaces the first and calls memory_manager.recall_fact, a
\* method JARVISMemoryManager does not have.
recall_fact(input) ==
    /\ freply' = [NoReply EXCEPT !.op = "recall_fact", !.input = input,
                     !.kind = "raised", !.value = <<"AttributeError">>]
    /\ UNCHANGED <<now, factVars, poolVars, engVars, logVars, selVars, carryVars>>

\* dispatch_command's keyword tests, "word in user_input_lower": the words of
\* the keyword stand in the input one after the other. (The test is on
\* substrings; no word of Inputs holds a keyword inside it, and none holds
\* "time", "date" or the words of the key and debug commands, which
\* dispatch_command looks for first.)
Occurs(ws, lit) ==
    \E i \in 1..(Len(ws) - Len(lit) + 1) : \A j \in 1..Len(lit) : ws[i + j - 1] = lit[j]
memory_words ==
    {<<"remember", "that">>, <<"my">>, <<"is">>, <<"i", "like">>, <<"i", "love">>,
     <<"my", "name", "is">>}
recall_words == {<<"what", "is", "my">>, <<"what", "was", "my">>}

\* dispatch_command from "# Memory commands" on: what it returns, or raises,
\* once remember_fact had nothing to return (or was not called).
FallThrough(input) ==
    IF \E lit \in recall_words : Occurs(LowerAll(input), lit)
    THEN [op |-> "dispatch_command", input |-> input, kind |-> "raised",
          attribute |-> <<>>, value |-> <<"AttributeError">>]
    ELSE [op |-> "dispatch_command", input |-> input, kind |-> "None",
          attribute |-> <<>>, value |-> <<>>]

\* user_input_lower.startswith(...), on the words of the input.
StartsWith(ws, lit) == Len(ws) >= Len(lit) /\ SubSeq(ws, 1, Len(lit)) = lit

\* The key commands the user types; the secret and the number are words of
\* the command.
KeyInputs ==
    { <<"add", "api", "key", "sk-b">>,
      <<"add", "api", "key", "openai", "sk-b">>,
      <<"add", "api", "key", "sk-b", "priority", "2">>,
      <<"add", "api", "key", "openai", "sk-aa01234567", "priority", "2">> }
IntOf(w) == IF w = "1" THEN 1 ELSE IF w = "2" THEN 2 ELSE NULL

\* _parse_add_api_key(parts): (service, api_key, priority) from the words
\* after "add api key", or the ValueError it raises.
known_services == {"openai", "anthropic", "deepseek", "newsapi"}
parse_add_api_key(parts) ==
    IF parts = <<>> THEN [error |-> "No arguments provided"]
    ELSE LET named == Lower(parts[1]) \in known_services /\ Len(parts) >= 2
             rest == SubSeq(parts, IF named THEN 3 ELSE 2, Len(parts))
             at == {i \in 1..Len(rest) : Lower(rest[i]) = "priority"}
             idx == CHOOSE i \in at : \A j \in at : i <= j
             parsed == [error |-> "", service |-> IF named THEN parts[1] ELSE "openai",
                        api_key |-> IF named THEN parts[2] ELSE parts[1],
                        priority |-> 1]
         IN  IF at = {} THEN parsed
             ELSE IF idx + 1 > Len(rest) THEN [error |-> "Priority value not provided"]
             ELSE IF IntOf(rest[idx + 1]) = NULL THEN [error |-> "Invalid priority value"]
             ELSE [parsed EXCEPT !.priority = IntOf(rest[idx + 1])]

\* dispatch_command(user_input). Its first test returns the prompt for every
\* input that starts with "add api key"; the handler further down that
\* parses the command and calls api_manager.add_api_key is behind the same
\* test and is never reached.
dispatch_command(input) ==
    /\ IF StartsWith(LowerAll(input), <<"add", "api", "key">>)
       THEN /\ rows' = rows
            /\ freply' = [NoReply EXCEPT !.op = "dispatch_command", !.input = input,
                             !.kind = "please_enter"]
       ELSE IF \E lit \in memory_words : Occurs(LowerAll(input), lit)
       THEN \E o \in Remembered(input) :
               /\ o.kind = "noted" => Len(rows) < MaxRowsFront
               /\ rows' = o.rows
               /\ freply' = IF o.kind # "nothing_detected"
                            THEN [op |-> "dispatch_command", input |-> input,
                                  kind |-> o.kind, attribute |-> o.attribute,
                                  value |-> o.value]
                            ELSE FallThrough(input)
       ELSE /\ rows' = rows
            /\ freply' = FallThrough(input)
    /\ UNCHANGED <<now, ret, wpc, wargs, disk, poolVars, engVars, logVars, selVars, carryVars>>

FrontNext ==
    \/ Tick
    \/ \E input \in Inputs : remember_fact(input)
    \/ \E input \in Inputs : recall_fact(input)
    \/ \E input \in Inputs : dispatch_command(input)

\* ------------------------------------------------------------ chat logger
MaxMessages == 2
MaxLists == 3

\* An entry of current_session, by its 'user' field.
Users == {"user", "ai"}

\* len(self.current_session) % 20 == 0
AutoSaveEvery == 20

NoFile == [written |-> FALSE, autosave |-> FALSE, total_messages |-> 0,
           user_messages |-> 0, messages |-> <<>>]
\* A thread running _auto_save_worker: where it is, and save_session's
\* locals. worker holds the threads started so far, the last one being
\* _auto_save_thread; a thread whose function has returned is "done".
AtRest == [pc |-> "loop", total |-> 0, users |-> 0, ref |-> 0]
Alive(ws) == {w \in 1..Len(ws) : ws[w].pc # "done"}
\* self._auto_save_thread and self._auto_save_thread.is_alive()
ThreadAlive == worker # <<>> /\ worker[Len(worker)].pc # "done"

\* ChatLogger.__init__: current_session is a new empty list, no thread.
LoggerIdle ==
    /\ heap = [l \in 1..1 |-> <<>>]
    /\ current_session = 1
    /\ worker = <<>>
    /\ saved = NoFile
    /\ stop_auto_save = FALSE
    /\ main = "idle"

\* [m for m in self.current_session if m['user'] == 'user']
UserMessages(ms) == SelectSeq(ms, LAMBDA u : u = "user")

\* save_session run without interruption: the statistics and the messages
\* are those of one list at one moment.
SessionData(ms, autosave) ==
    [written |-> TRUE, autosave |-> autosave, total_messages |-> Len(ms),
     user_messages |-> Len(UserMessages(ms)), messages |-> ms]

\* start_new_session: current_session is bound to a new list; then
\* _start_auto_save: with a thread alive it sets the flag and waits in
\* join(timeout=1.0); with none it clears the flag and starts a thread.
start_new_session ==
    /\ main \in {"idle", "stopped"}
    /\ Len(heap) < MaxLists
    /\ heap' = Append(heap, <<>>)
    /\ current_session' = Len(heap) + 1
    /\ IF ThreadAlive
       THEN /\ stop_auto_save' = TRUE
            /\ main' = "starting"
            /\ worker' = worker
       ELSE /\ stop_auto_save' = FALSE
            /\ main' = "idle"
            /\ worker' = Append(worker, AtRest)
    /\ UNCHANGED <<saved, notLogger>>

\* join(timeout=1.0) returns, the thread having ended or the second having
\* passed (a worker sleeps 300 s at a time); the flag is cleared and a new
\* thread is started.
start_auto_save_joined ==
    /\ main = "starting"
    /\ stop_auto_save' = FALSE
    /\ worker' = Append(worker, AtRest)
    /\ main' = "idle"
    /\ UNCHANGED <<heap, current_session, saved, notLogger>>

\* stop: the flag is set; with a thread alive, join(timeout=2.0) on
\* _auto_save_thread; then the session, if it has entries, is saved.
stop ==
    /\ main = "idle"
    /\ stop_auto_save' = TRUE
    /\ IF ThreadAlive
       THEN /\ main' = "stopping"
            /\ saved' = saved
       ELSE /\ main' = "stopped"
            /\ saved' = IF heap[current_session] # <<>>
                        THEN SessionData(heap[current_session], FALSE) ELSE saved
    /\ UNCHANGED <<heap, current_session, worker, notLogger>>

\* join(timeout=2.0) returns, the thread having ended or not; the final
\* save; stop returns.
stop_joined ==
    /\ main = "stopping"
    /\ main' = "stopped"
    /\ saved' = IF heap[current_session] # <<>>
                THEN SessionData(heap[current_session], FALSE) ELSE saved
    /\ UNCHANGED <<heap, current_session, worker, stop_auto_save, notLogger>>

\* log_message: append to the list current_session is bound to; every
\* twentieth entry the caller's thread saves the session itself.
log_message(user) ==
    LET ms == Append(heap[current_session], user)
    IN  /\ main \in {"idle", "stopped"}
        /\ Len(heap[current_session]) < MaxMessages
        /\ heap' = [heap EXCEPT ![current_session] = ms]
        /\ saved' = IF Len(ms) % AutoSaveEvery = 0 THEN SessionData(ms, TRUE) ELSE saved
        /\ UNCHANGED <<current_session, worker, stop_auto_save, main, notLogger>>

\* _auto_save_worker: "while not self._stop_auto_save:", then the sleep.
worker_loops(w) ==
    /\ worker[w].pc = "loop"
    /\ worker' = [worker EXCEPT ![w].pc = IF stop_auto_save THEN "done" ELSE "sleep"]
    /\ UNCHANGED <<heap, current_session, saved, stop_auto_save, main, notLogger>>

\* After the sleep, "if self.current_session:" (with an empty session the
\* worker goes back to the loop test).
worker_wakes(w) ==
    /\ worker[w].pc = "sleep"
    /\ worker' = [worker EXCEPT ![w].pc = IF heap[current_session] # <<>> THEN "check"
                                          ELSE "loop"]
    /\ UNCHANGED <<heap, current_session, saved, stop_auto_save, main, notLogger>>

\* save_session: "if not self.current_session: return None".
worker_checks(w) ==
    /\ worker[w].pc = "check"
    /\ worker' = [worker EXCEPT ![w].pc = IF heap[current_session] # <<>> THEN "stats"
                                          ELSE "loop"]
    /\ UNCHANGED <<heap, current_session, saved, stop_auto_save, main, notLogger>>

\* The statistics: the list comprehensions, self.current_session[0] (an
\* IndexError on an empty list, caught: no file) and len(self.current_session).
worker_stats(w) ==
    /\ worker[w].pc = "stats"
    /\ worker' = IF heap[current_session] = <<>>
                 THEN [worker EXCEPT ![w].pc = "loop"]
                 ELSE [worker EXCEPT ![w].pc = "bind",
                                     ![w].total = Len(heap[current_session]),
                                     ![w].users = Len(UserMessages(heap[current_session]))]
    /\ UNCHANGED <<heap, current_session, saved, stop_auto_save, main, notLogger>>

\* "messages": self.current_session -- the list object, not a copy.
worker_binds(w) ==
    /\ worker[w].pc = "bind"
    /\ worker' = [worker EXCEPT ![w].pc = "dump", ![w].ref = current_session]
    /\ UNCHANGED <<heap, current_session, saved, stop_auto_save, main, notLogger>>

\* json.dump(session_data, f): the list is read when it is written.
worker_dumps(w) ==
    /\ worker[w].pc = "dump"
    /\ saved' = [written |-> TRUE, autosave |-> TRUE,
                 total_messages |-> worker[w].total, user_messages |-> worker[w].users,
                 messages |-> heap[worker[w].ref]]
    /\ worker' = [worker EXCEPT ![w] = AtRest]
    /\ UNCHANGED <<heap, current_session, stop_auto_save, main, notLogger>>

LoggerNext ==
    \/ start_new_session
    \/ start_auto_save_joined
    \/ stop
    \/ stop_joined
    \/ \E user \in Users : log_message(user)
    \/ \E w \in DOMAIN worker : worker_loops(w)
    \/ \E w \in DOMAIN worker : worker_wakes(w)
    \/ \E w \in DOMAIN worker : worker_checks(w)
    \/ \E w \in DOMAIN worker : worker_stats(w)
    \/ \E w \in DOMAIN worker : worker_binds(w)
    \/ \E w \in DOMAIN worker : worker_dumps(w)

\* ------------------------------------------------- credential pool: model
MaxUsage == 2
MaxPoolTime == 1
\* The clock counts ticks; strftime("%Y-%m-%d %H:%M:%S") keeps whole seconds.
TicksPerSecond == 2

Services == {"openai", "groq"}
Priorities == {1, 2}

\* Secrets are strings of characters (get_key_status slices them).
KeyA == <<"s", "k", "-", "a", "a", "0", "1", "2", "3", "4", "5", "6", "7">>
KeyB == <<"s", "k", "-", "b">>
Secrets == {KeyA, KeyB}
NoKey == <<>>

\* status TEXT DEFAULT 'active'; the data model and the dispatcher's listing
\* know a third status besides active and rate_limited.
Statuses == {"active", "rate_limited", "invalid"}

\* INSERT INTO api_keys (service, api_key, priority): the other columns take
\* their defaults (status 'active', rate_limit_reset NULL, usage_count 0).
\* last_used and created_at are written and never read; they are left out.
NewKey(service, api_key, priority) ==
    [service |-> service, api_key |-> api_key, status |-> "active",
     rate_limit_reset |-> NULL, usage_count |-> 0, priority |-> priority]

\* SELECT id FROM api_keys WHERE api_key = ?
KeyExistsAtHead(ks, api_key) == Len(ks) > 0 /\ ks[1].api_key = api_key
KeyExists(ks, api_key) == \E i \in 1..Len(ks) : ks[i].api_key = api_key

\* reset_time.strftime("%Y-%m-%d %H:%M:%S"): the sub-second part is dropped;
\* _refresh_rate_limited_keys parses the text back with the same format.
FormatResetUp(t) == t + ((TicksPerSecond - (t % TicksPerSecond)) % TicksPerSecond)
FormatReset(t) == t - (t % TicksPerSecond)

\* datetime.now() + timedelta(hours=1)
OneHour == 3600 * TicksPerSecond
DefaultReset(reset_time) == IF reset_time = NULL THEN now + OneHour ELSE reset_time

\* _refresh_rate_limited_keys(service): every rate_limited row of the service
\* whose parsed rate_limit_reset is <= now becomes active with the reset
\* cleared; a row with no reset value is skipped.
DueForRefreshAnyTime(ks, service) ==
    {i \in 1..Len(ks) : ks[i].service = service /\ ks[i].status = "rate_limited"}
DueForRefresh(ks, service) ==
    {i \in 1..Len(ks) :
        /\ ks[i].service = service
        /\ ks[i].status = "rate_limited"
        /\ ks[i].rate_limit_reset # NULL
        /\ ks[i].rate_limit_reset <= now}
refresh_rate_limited_keys_status_only(ks, service) ==
    [i \in 1..Len(ks) |->
        IF i \in DueForRefresh(ks, service) THEN [ks[i] EXCEPT !.status = "active"]
        ELSE ks[i]]
refresh_rate_limited_keys(ks, service) ==
    [i \in 1..Len(ks) |->
        IF i \in DueForRefresh(ks, service)
        THEN [ks[i] EXCEPT !.status = "active", !.rate_limit_reset = NULL]
        ELSE ks[i]]

\* ORDER BY priority ASC, usage_count ASC
OrderByUsageFirst(a, b) ==
    \/ a.usage_count < b.usage_count
    \/ a.usage_count = b.usage_count /\ a.priority <= b.priority
OrderBy(a, b) ==
    \/ a.priority < b.priority
    \/ a.priority = b.priority /\ a.usage_count <= b.usage_count

\* WHERE service = ? AND status = 'active'
ActiveOf(ks, service) ==
    {i \in 1..Len(ks) : ks[i].service = service /\ ks[i].status = "active"}

\* ... ORDER BY priority ASC, usage_count ASC LIMIT 1: the rows the query may
\* return (rows equal in both columns come in an order SQL does not fix).
FirstActive(ks, service) ==
    {i \in ActiveOf(ks, service) : \A j \in ActiveOf(ks, service) : OrderBy(ks[i], ks[j])}

\* The row sequences a SELECT over the rows in S with that ORDER BY may return.
Ordered(ks, S) ==
    {q \in [1..Cardinality(S) -> S] :
        /\ \A a, b \in 1..Cardinality(S) : a # b => q[a] # q[b]
        /\ \A a, b \in 1..Cardinality(S) : a < b => OrderBy(ks[q[a]], ks[q[b]])}

\* api_key_full[:8] + "..." + api_key_full[-4:]
Mask(k) ==
    SubSeq(k, 1, IF Len(k) < 8 THEN Len(k) ELSE 8)
       \o <<".", ".", ".">>
       \o SubSeq(k, IF Len(k) < 4 THEN 1 ELSE Len(k) - 3, Len(k))

\* The last call: its arguments, what it returned, and the secrets of the
\* rows its refresh pass reactivated.
NoPRet == [op |-> "none", service |-> "", api_key |-> NoKey, reset_time |-> NULL,
           priority |-> NULL, result |-> <<>>, refreshed |-> {}, config |-> <<>>]
Refreshed(ks, service) == {ks[i].api_key : i \in DueForRefresh(ks, service)}

\* The pool file outlives the process: it is empty on first use, or holds
\* rows a previous run or the operator left, among them rows whose status is
\* invalid (no operation of APIManager writes that status).
PoolIdle ==
    /\ keys = <<>>
    /\ pret = NoPRet

PoolInit ==
    /\ keys \in {<<>>} \cup
          {<<[NewKey(s, KeyA, 1) EXCEPT !.status = "invalid"]>> : s \in Services}
    /\ pret = NoPRet

\* add_api_key(service, api_key, priority)
add_api_key(service, api_key, priority) ==
    /\ keys' = IF KeyExists(keys, api_key) THEN keys
               ELSE Append(keys, NewKey(service, api_key, priority))
    /\ pret' = [NoPRet EXCEPT !.op = "add_api_key", !.service = service,
                              !.api_key = api_key,
                              !.result = <<~KeyExists(keys, api_key)>>]
    /\ UNCHANGED <<now, notPool>>

\* The uses counted over all rows.
RECURSIVE SumUsage(_, _)
SumUsage(ks, n) == IF n = 0 THEN 0 ELSE ks[n].usage_count + SumUsage(ks, n - 1)
TotalUsage(ks) == SumUsage(ks, Len(ks))

\* get_next_available_key(service): refresh, pick, count the use.
get_next_available_key(service) ==
    LET ks == refresh_rate_limited_keys(keys, service)
    IN  /\ \/ /\ FirstActive(ks, service) = {}
              /\ keys' = ks
              /\ pret' = [NoPRet EXCEPT !.op = "get_next_available_key",
                                        !.service = service, !.result = <<>>,
                                        !.refreshed = Refreshed(keys, service)]
           \/ \E i \in FirstActive(ks, service) :
              /\ TotalUsage(ks) < MaxUsage
              /\ keys' = [ks EXCEPT ![i].usage_count = @ + 1]
              /\ pret' = [NoPRet EXCEPT !.op = "get_next_available_key",
                                        !.service = service,
                                        !.api_key = ks[i].api_key,
                                        !.result = <<ks[i].api_key>>,
                                        !.refreshed = Refreshed(keys, service)]
        /\ UNCHANGED <<now, notPool>>

\* mark_key_rate_limited(api_key, reset_time): UPDATE ... WHERE api_key = ?
mark_key_rate_limited(api_key, reset_time) ==
    /\ keys' = [i \in 1..Len(keys) |->
                  IF keys[i].api_key = api_key
                  THEN [keys[i] EXCEPT !.status = "rate_limited",
                                       !.rate_limit_reset = FormatReset(DefaultReset(reset_time))]
                  ELSE keys[i]]
    /\ pret' = [NoPRet EXCEPT !.op = "mark_key_rate_limited", !.api_key = api_key,
                              !.reset_time = reset_time]
    /\ UNCHANGED <<now, notPool>>

\* get_key_status(service): refresh, then every row of the service, masked.
get_key_status(service) ==
    LET ks == refresh_rate_limited_keys(keys, service)
        S == {i \in 1..Len(ks) : ks[i].service = service}
    IN  /\ keys' = ks
        /\ \E q \in Ordered(ks, S) :
              pret' = [NoPRet EXCEPT !.op = "get_key_status", !.service = service,
                          !.refreshed = Refreshed(keys, service),
                          !.result = [n \in 1..Cardinality(S) |->
                                        [api_key |-> Mask(ks[q[n]].api_key),
                                         status |-> ks[q[n]].status,
                                         rate_limit_reset |-> ks[q[n]].rate_limit_reset,
                                         usage_count |-> ks[q[n]].usage_count,
                                         priority |-> ks[q[n]].priority]]]
        /\ UNCHANGED <<now, notPool>>

\* get_unmasked_keys(service): refresh, then the active secrets in order.
get_unmasked_keys(service) ==
    LET ks == refresh_rate_limited_keys(keys, service)
        S == ActiveOf(ks, service)
    IN  /\ keys' = ks
        /\ \E q \in Ordered(ks, S) :
              pret' = [NoPRet EXCEPT !.op = "get_unmasked_keys", !.service = service,
                          !.refreshed = Refreshed(keys, service),
                          !.result = [n \in 1..Cardinality(S) |-> ks[q[n]].api_key]]
        /\ UNCHANGED <<now, notPool>>

\* DELETE FROM api_keys WHERE priority = ?
DeleteFirstWhere(ks, priority) ==
    LET hit == {i \in 1..Len(ks) : ks[i].priority = priority}
        first == CHOOSE i \in hit : \A j \in hit : i <= j
    IN  IF hit = {} THEN ks
        ELSE SubSeq(ks, 1, first - 1) \o SubSeq(ks, first + 1, Len(ks))
DeleteWhere(ks, priority) == SelectSeq(ks, LAMBDA r : r.priority # priority)

\* remove_api_key(priority): the DELETE, then conn.total_changes > 0 on the
\* connection opened for it.
remove_api_key(priority) ==
    /\ keys' = DeleteWhere(keys, priority)
    /\ pret' = [NoPRet EXCEPT !.op = "remove_api_key", !.priority = priority,
                              !.result = <<Len(keys) - Len(DeleteWhere(keys, priority)) > 0>>]
    /\ UNCHANGED <<now, notPool>>

\* Priorities given to remove_api_key: those rows may have, and one none has.
RemovePriorities == Priorities \cup {3}

\* The pool with removals.
RemoveNext ==
    \/ \E s \in Services, k \in Secrets, p \in Priorities : add_api_key(s, k, p)
    \/ \E s \in Services : get_next_available_key(s)
    \/ \E k \in Secrets, t \in (0..MaxPoolTime) \cup {NULL} : mark_key_rate_limited(k, t)
    \/ \E p \in RemovePriorities : remove_api_key(p)

\* ------------------------------------------ credential pool: import of keys
\* for i in range(1, 6)
EnvSlots == 1..5

\* config.settings as import_keys_from_env sees it: OPENAI_API_KEY_1.._5,
\* each a secret or unset (os.getenv gives None; an empty value is falsy
\* too); <<>> is a process in which "from config import settings" fails.
\* The configurations tried leave slots 2 and 4 unset.
UnsetSlots == {2, 4}
Configs ==
    {<<>>} \cup {c \in [EnvSlots -> Secrets \cup {NoKey}] : \A i \in UnsetSlots : c[i] = NoKey}

\* What add_api_key does to the rows, and what it returns.
AddKey(ks, service, api_key, priority) ==
    IF KeyExists(ks, api_key)
    THEN [keys |-> ks, added |-> FALSE]
    ELSE [keys |-> Append(ks, NewKey(service, api_key, priority)), added |-> TRUE]

\* One pass of the loop body for slot i: hasattr, "if api_key", the SELECT
\* on the function's own connection, then add_api_key("openai", api_key, i).
ImportSlotUnchecked(st, config, i) ==
    IF i \in DOMAIN config /\ config[i] # NoKey
    THEN [keys |-> Append(st.keys, NewKey("openai", config[i], i)),
          imported_count |-> st.imported_count + 1]
    ELSE st
ImportSlot(st, config, i) ==
    IF i \in DOMAIN config /\ config[i] # NoKey /\ ~KeyExists(st.keys, config[i])
    THEN LET a == AddKey(st.keys, "openai", config[i], i)
         IN  [keys |-> a.keys,
              imported_count |-> st.imported_count + (IF a.added THEN 1 ELSE 0)]
    ELSE st

\* The loop from slot i on.
RECURSIVE ImportFrom(_, _, _)
ImportFrom(st, config, i) ==
    IF i \notin EnvSlots THEN st
    ELSE ImportFrom(ImportSlot(st, config, i), config, i + 1)

\* import_keys_from_env()
import_keys_from_env(config) ==
    LET done == ImportFrom([keys |-> keys, imported_count |-> 0], config, 1)
    IN  /\ keys' = done.keys
        /\ pret' = [NoPRet EXCEPT !.op = "import_keys_from_env", !.config = config,
                                  !.result = <<done.imported_count>>]
        /\ UNCHANGED <<now, notPool>>

\* The pool with imports: the operator adds keys by hand, for any service,
\* and removes them, between runs of the import.
ImportNext ==
    \/ \E config \in Configs : import_keys_from_env(config)
    \/ \E s \in Services, k \in Secrets, p \in Priorities : add_api_key(s, k, p)
    \/ \E p \in RemovePriorities : remove_api_key(p)

\* ------------------------------- credential pool: selections side by side
MaxSelecting == 2
Selectors == {"c1", "c2"}

NotSelecting == [pc |-> "idle", service |-> "", id |-> 0, api_key |-> NoKey,
                 priority |-> 0]
SelectIdle == sel = [p \in Selectors |-> NotSelecting]

\* UPDATE api_keys SET usage_count = usage_count + 1, ... WHERE id = ?
\* (a row's id is its place in keys: no row is deleted here).
IncrementUsageOnce(ks, id) ==
    IF ks[id].usage_count = 0 THEN [ks EXCEPT ![id].usage_count = 1] ELSE ks
IncrementUsage(ks, id) == [ks EXCEPT ![id].usage_count = @ + 1]

\* get_next_available_key, first part: _refresh_rate_limited_keys on its own
\* connection, committed.
select_refresh(p, service) ==
    /\ sel[p].pc = "idle"
    /\ keys' = refresh_rate_limited_keys(keys, service)
    /\ sel' = [sel EXCEPT ![p] = [NotSelecting EXCEPT !.pc = "select", !.service = service]]
    /\ UNCHANGED <<now, pret, factVars, engVars, frontVars, logVars, carryVars>>

\* Second part: the SELECT ... LIMIT 1 on a new connection; with no row the
\* call returns None.
select_row(p) ==
    /\ sel[p].pc = "select"
    /\ \/ /\ FirstActive(keys, sel[p].service) = {}
          /\ sel' = [sel EXCEPT ![p] = NotSelecting]
          /\ pret' = [NoPRet EXCEPT !.op = "get_next_available_key",
                                    !.service = sel[p].service, !.result = <<>>]
       \/ \E i \in FirstActive(keys, sel[p].service) :
          /\ TotalUsage(keys) + Cardinality({q \in Selectors : sel[q].pc = "update"})
                < MaxSelecting
          /\ sel' = [sel EXCEPT ![p].pc = "update", ![p].id = i,
                                ![p].api_key = keys[i].api_key]
          /\ pret' = pret
    /\ UNCHANGED <<now, keys, factVars, engVars, frontVars, logVars, carryVars>>

\* Third part: the UPDATE of the row with the id read, the commit, and the
\* return of the secret read.
select_update(p) ==
    /\ sel[p].pc = "update"
    /\ keys' = IncrementUsage(keys, sel[p].id)
    /\ sel' = [sel EXCEPT ![p] = NotSelecting]
    /\ pret' = [NoPRet EXCEPT !.op = "get_next_available_key",
                              !.service = sel[p].service,
                              !.api_key = sel[p].api_key,
                              !.result = <<sel[p].api_key>>]
    /\ UNCHANGED <<now, factVars, engVars, frontVars, logVars, carryVars>>

\* Two callers of get_next_available_key, with the other calls in between
\* (keys are added with priority 1 and marked with a reset time of 0, which
\* the next refresh pass finds passed).
SelectNext ==
    \/ \E p \in Selectors, s \in Services : select_refresh(p, s)
    \/ \E p \in Selectors : select_row(p)
    \/ \E p \in Selectors : select_update(p)
    \/ \E s \in Services, k \in Secrets : add_api_key(s, k, 1)
    \/ \E k \in Secrets : mark_key_rate_limited(k, 0)
    \/ \E s \in Services : get_key_status(s)
    \/ \E s \in Services : get_unmasked_keys(s)

\* ---------------------------------- credential pool: adds side by side
MaxRowsAdd == 3

\* add_api_key, first part: the SELECT id ... WHERE api_key = ? on the
\* call's connection; a row found ends the call with False. (The SELECT opens
\* no transaction that lasts: the INSERT is a transaction of its own.)
add_check(p, service, api_key, priority) ==
    /\ sel[p].pc = "idle"
    /\ IF KeyExists(keys, api_key)
       THEN /\ sel' = sel
            /\ pret' = [NoPRet EXCEPT !.op = "add_api_key", !.service = service,
                                      !.api_key = api_key, !.result = <<FALSE>>]
       ELSE /\ Len(keys) + Cardinality({q \in Selectors : sel[q].pc = "insert"}) < MaxRowsAdd
            /\ sel' = [sel EXCEPT ![p] = [NotSelecting EXCEPT !.pc = "insert",
                          !.service = service, !.api_key = api_key, !.priority = priority]]
            /\ pret' = pret
    /\ UNCHANGED <<now, keys, factVars, engVars, frontVars, logVars, carryVars>>

\* Second part: the INSERT, the commit and return True. The table has no
\* UNIQUE constraint on api_key: the INSERT adds its row whatever is there.
add_insert(p) ==
    /\ sel[p].pc = "insert"
    /\ keys' = Append(keys, NewKey(sel[p].service, sel[p].api_key, sel[p].priority))
    /\ sel' = [sel EXCEPT ![p] = NotSelecting]
    /\ pret' = [NoPRet EXCEPT !.op = "add_api_key", !.service = sel[p].service,
                              !.api_key = sel[p].api_key, !.result = <<TRUE>>]
    /\ UNCHANGED <<now, factVars, engVars, frontVars, logVars, carryVars>>

\* Two callers, each adding a key or selecting one.
AddNext ==
    \/ \E p \in Selectors, s \in Services, k \in Secrets : add_check(p, s, k, 1)
    \/ \E p \in Selectors : add_insert(p)
    \/ \E p \in Selectors, s \in Services : select_refresh(p, s)
    \/ \E p \in Selectors : select_row(p)
    \/ \E p \in Selectors : select_update(p)

\* The key commands of the front-end, and the pool's own operations.
KeysNext ==
    \/ \E s \in Services, k \in Secrets, p \in Priorities : add_api_key(s, k, p)
    \/ \E s \in Services : get_key_status(s)
    \/ \E input \in KeyInputs : dispatch_command(input)

\* Time passes between two calls.
PoolTick ==
    /\ now < MaxPoolTime
    /\ Tick

PoolNext ==
    \/ PoolTick
    \/ \E s \in Services, k \in Secrets, p \in Priorities : add_api_key(s, k, p)
    \/ \E s \in Services : get_next_available_key(s)
    \/ \E k \in Secrets, t \in (0..MaxPoolTime) \cup {NULL} : mark_key_rate_limited(k, t)
    \/ \E s \in Services : get_key_status(s)
    \/ \E s \in Services : get_unmasked_keys(s)

\* ---------------------------------------------------- key rotation engine
MaxKeys == 2
MaxCalls == 2
MaxDispatches == 3
\* time.time() when the client is constructed (any instant well after 0.0,
\* the initial last_request_time and cooldown_until).
StartClock == 1000

\* OpenAIClient.__init__ defaults, in ticks.
default_cooldown == 60 * TicksPerSecond
min_request_interval == 3 * TicksPerSecond
daily_token_limit == 100000
\* chat_completion's literals, in ticks: cooldown=10, cooldown=5,
\* time.sleep(0.5), max(1.0, ...), time.sleep(wait + 0.5).
TransientCooldown == 10 * TicksPerSecond
UnexpectedCooldown == 5 * TicksPerSecond
RotateSleep == TicksPerSecond \div 2
MinWait == 1 * TicksPerSecond
WaitBuffer == TicksPerSecond \div 2

\* Time between the return of one call and the next call; the time one
\* remote call takes; resp.usage.total_tokens of a response (0: no usage).
IdleGaps == {0, TransientCooldown, default_cooldown}
DispatchTimes == {1}
UsageTokens == {0, 1000}

\* What client.chat.completions.create may do: return, or raise one of the
\* classes chat_completion names, or something else ("ValueError").
Outcomes == {"ok", "RateLimitError", "APIError", "APIConnectionError",
             "APITimeoutError", "AuthenticationError", "BadRequestError",
             "ValueError"}

\* The classes of the openai package (imported at the top of
\* openai_client.py) that an exception of each class is an instance of:
\* RateLimitError, AuthenticationError and BadRequestError derive from
\* APIStatusError, which derives from APIError; APITimeoutError derives from
\* APIConnectionError, which derives from APIError.
ClassesOf(exc) ==
    CASE exc = "RateLimitError" -> {"RateLimitError", "APIStatusError", "APIError", "Exception"}
      [] exc = "AuthenticationError" -> {"AuthenticationError", "APIStatusError", "APIError", "Exception"}
      [] exc = "BadRequestError" -> {"BadRequestError", "APIStatusError", "APIError", "Exception"}
      [] exc = "APITimeoutError" -> {"APITimeoutError", "APIConnectionError", "APIError", "Exception"}
      [] exc = "APIConnectionError" -> {"APIConnectionError", "APIError", "Exception"}
      [] exc = "APIError" -> {"APIError", "Exception"}
      [] OTHER -> {"Exception"}

\* The except clauses of chat_completion, in source order.
ExceptClauses ==
    << [classes |-> {"RateLimitError"}, handler |-> "rate_limit"],
       [classes |-> {"APIError", "APIConnectionError", "APITimeoutError"}, handler |-> "transient"],
       [classes |-> {"AuthenticationError"}, handler |-> "bad"],
       [classes |-> {"BadRequestError"}, handler |-> "raise"],
       [classes |-> {"Exception"}, handler |-> "unexpected"] >>

\* Python runs the first except clause that names a class of the exception.
HandlerOf(exc) ==
    LET hit == {i \in 1..Len(ExceptClauses) : ExceptClauses[i].classes \cap ClassesOf(exc) # {}}
        first == CHOOSE i \in hit : \A j \in hit : i <= j
    IN  ExceptClauses[first].handler

NumKeys(ks) == Cardinality(DOMAIN ks)

\* KeyManager.get_available_key_index at time t: the offsets from
\* current_index, wrapping, of the keys that are not bad and not cooling.
AvailableOffsetsAnyKey(ks, cur, t) ==
    {o \in 0..(NumKeys(ks) - 1) : t >= ks[(cur + o) % NumKeys(ks)].cooldown_until}
AvailableOffsets(ks, cur, t) ==
    {o \in 0..(NumKeys(ks) - 1) :
        /\ ~ks[(cur + o) % NumKeys(ks)].bad
        /\ t >= ks[(cur + o) % NumKeys(ks)].cooldown_until}

NoIndex == 0 - 1

\* The last remote call made: how many so far, with which key, how it ended,
\* when it was sent and when its outcome came back.
NoDispatch == [n |-> 0, idx |-> NoIndex, exc |-> "none", at |-> 0, done |-> 0]

get_available_key_index(ks, cur, t) ==
    LET offs == AvailableOffsets(ks, cur, t)
    IN  IF offs = {} THEN NoIndex
        ELSE (cur + (CHOOSE o \in offs : \A p \in offs : o <= p)) % NumKeys(ks)

\* KeyManager.mark_rate_limited(idx, cooldown) at time t:
\* cooldown_until = time.time() + (cooldown or self.default_cooldown).
mark_rate_limited_as_given(ks, idx, cooldown, t) ==
    [ks EXCEPT ![idx].cooldown_until = t + cooldown]
mark_rate_limited(ks, idx, cooldown, t) ==
    [ks EXCEPT ![idx].cooldown_until =
        t + (IF cooldown = 0 THEN default_cooldown ELSE cooldown)]

\* KeyManager.mark_bad(idx).
mark_bad(ks, idx) == [ks EXCEPT ![idx].bad = TRUE]

\* KeyManager.rotate_next at time t: the first of current_index + 1, ...,
\* current_index + n (wrapping) that is not bad and not cooling, or NoIndex.
rotate_next(ks, cur, t) ==
    LET n == NumKeys(ks)
        ok == {i \in 1..n : ~ks[(cur + i) % n].bad /\ t >= ks[(cur + i) % n].cooldown_until}
    IN  IF ok = {} THEN NoIndex
        ELSE (cur + (CHOOSE i \in ok : \A j \in ok : i <= j)) % n

\* min(cooldown_until of the keys that are not bad, default=None); 0 stands
\* for both None and 0.0, which the code's "if soonest and ..." treats alike.
Soonest(ks) ==
    LET good == {i \in DOMAIN ks : ~ks[i].bad}
    IN  IF good = {} THEN 0
        ELSE LET m == CHOOSE i \in good : \A j \in good : ks[i].cooldown_until <= ks[j].cooldown_until
             IN  ks[m].cooldown_until

\* A check that lets a call through with the count exactly at the limit.
check_limits_above(used) == used <= daily_token_limit

\* TokenTracker.check_limits
check_limits(used) == used < daily_token_limit

\* OpenAIClient.__init__ with n keys found in the environment; the token
\* count of the day is read back from the usage file.
EngineIdle ==
    /\ keys_state = [i \in 0..0 |-> [cooldown_until |-> 0, bad |-> FALSE]]
    /\ current_index = 0
    /\ last_request_time = 0
    /\ tokens_used_today = 0
    /\ clock = StartClock
    /\ epc = "idle"
    /\ eres = "none"
    /\ dlog = NoDispatch
    /\ ncalls = 0

EngineInit ==
    /\ \E n \in 1..MaxKeys :
          keys_state = [i \in 0..(n - 1) |-> [cooldown_until |-> 0, bad |-> FALSE]]
    /\ current_index = 0
    /\ last_request_time = 0
    /\ tokens_used_today \in {0, daily_token_limit}
    /\ clock = StartClock
    /\ epc = "idle"
    /\ eres = "none"
    /\ dlog = NoDispatch
    /\ ncalls = 0

\* chat_completion is called, gap ticks after the previous call returned:
\* the token check, then the throttle sleep, then last_request_time.
chat_completion_call(gap) ==
    LET t0 == clock + gap
        since == t0 - last_request_time
        t1 == IF since < min_request_interval THEN t0 + (min_request_interval - since) ELSE t0
    IN  /\ epc = "idle"
        /\ ncalls < MaxCalls
        /\ ncalls' = ncalls + 1
        /\ IF ~check_limits(tokens_used_today)
           THEN /\ eres' = "TokenLimit"
                /\ clock' = t0
                /\ UNCHANGED <<epc, last_request_time>>
           ELSE /\ eres' = "none"
                /\ clock' = t1
                /\ last_request_time' = t1
                /\ epc' = "select"
        /\ UNCHANGED <<keys_state, current_index, tokens_used_today, dlog, notEngine>>

\* The top of the while loop: _select_and_apply_key.
select_and_apply_key ==
    LET idx == get_available_key_index(keys_state, current_index, clock)
    IN  /\ epc = "select"
        /\ IF idx = NoIndex
           THEN /\ eres' = "NoValidKeys"
                /\ epc' = "idle"
                /\ UNCHANGED current_index
           ELSE /\ current_index' = idx
                /\ epc' = "dispatch"
                /\ UNCHANGED eres
        /\ UNCHANGED <<keys_state, last_request_time, tokens_used_today, clock,
                       dlog, ncalls, notEngine>>

\* After a handled failure at time t with key states ks and cursor cur:
\* rotate_next, then the 0.5 s sleep, or the wait for the soonest cooldown,
\* or the exhaustion error. What the loop does next: where it continues,
\* with which cursor, at what time, raising what.
RotateOutcome(ks, cur, t) ==
    LET cand == rotate_next(ks, cur, t)
        soonest == Soonest(ks)
        wait == IF soonest - t > MinWait THEN soonest - t ELSE MinWait
    IN  IF cand # NoIndex
        THEN [pc |-> "select", index |-> cand, clock |-> t + RotateSleep, raised |-> "none"]
        ELSE IF soonest # 0 /\ soonest > t
        THEN [pc |-> "select", index |-> cur, clock |-> t + wait + WaitBuffer, raised |-> "none"]
        ELSE [pc |-> "idle", index |-> cur, clock |-> t, raised |-> "Exhausted"]

AfterFailure(ks, t) ==
    LET o == RotateOutcome(ks, current_index, t)
    IN  /\ keys_state' = ks
        /\ current_index' = o.index
        /\ clock' = o.clock
        /\ epc' = o.pc
        /\ eres' = IF o.raised = "none" THEN eres ELSE o.raised

\* A handler that put every key on cooldown, not only the one that failed.
HandlerMarkEveryKey(ks, idx, h, t) ==
    [i \in DOMAIN ks |-> [ks[i] EXCEPT !.cooldown_until = t + TransientCooldown]]

\* What the except clause chosen for a failure does to the key states.
HandlerMark(ks, idx, h, t) ==
    CASE h = "rate_limit" -> mark_rate_limited(ks, idx, 0, t)
      [] h = "transient" -> mark_rate_limited(ks, idx, TransientCooldown, t)
      [] h = "unexpected" -> mark_rate_limited(ks, idx, UnexpectedCooldown, t)
      [] h = "bad" -> mark_bad(ks, idx)

\* One remote call with the selected key, taking d ticks and ending in exc,
\* and what chat_completion does with the outcome.
dispatch(exc, d, tokens) ==
    LET idx == current_index
        t == clock + d
        h == HandlerOf(exc)
    IN  /\ epc = "dispatch"
        /\ dlog.n < MaxDispatches
        /\ dlog' = [n |-> dlog.n + 1, idx |-> idx, exc |-> exc, at |-> clock, done |-> t]
        /\ IF exc = "ok"
           THEN /\ tokens_used_today' = tokens_used_today + tokens
                /\ clock' = t
                /\ eres' = "ok"
                /\ epc' = "idle"
                /\ UNCHANGED <<keys_state, current_index>>
           ELSE /\ tokens = 0
                /\ UNCHANGED tokens_used_today
                /\ IF h = "raise"
                   THEN /\ eres' = exc
                        /\ epc' = "idle"
                        /\ clock' = t
                        /\ UNCHANGED <<keys_state, current_index>>
                   ELSE AfterFailure(HandlerMark(keys_state, idx, h, t), t)
        /\ UNCHANGED <<last_request_time, ncalls, notEngine>>

\* KeyManager.mark_bad called on client.key_manager between two requests.
\* (Inside chat_completion its only call site is the AuthenticationError
\* clause.)
mark_bad_call(idx) ==
    /\ epc = "idle"
    /\ ~keys_state[idx].bad
    /\ keys_state' = mark_bad(keys_state, idx)
    /\ UNCHANGED <<current_index, last_request_time, tokens_used_today, clock,
                   epc, eres, dlog, ncalls, notEngine>>

EngineNext ==
    \/ \E g \in IdleGaps : chat_completion_call(g)
    \/ select_and_apply_key
    \/ \E exc \in Outcomes, d \in DispatchTimes, u \in UsageTokens : dispatch(exc, d, u)
    \/ \E i \in DOMAIN keys_state : mark_bad_call(i)

\* ------------------------------------ one client for each logical request
NothingCarried ==
    carried = [i \in 0..(MaxKeys - 1) |-> [cooldown_until |-> 0, bad |-> FALSE]]

\* What the client about to be dropped adds to what was excluded before it.
Carry(old, ks) ==
    [i \in DOMAIN old |->
        IF i \in DOMAIN ks
        THEN [cooldown_until |-> IF ks[i].cooldown_until > old[i].cooldown_until
                                 THEN ks[i].cooldown_until ELSE old[i].cooldown_until,
              bad |-> old[i].bad \/ ks[i].bad]
        ELSE old[i]]

\* get_llm_response, gap ticks after the previous one returned: OpenAIClient()
\* builds a new KeyManager (every key with cooldown_until 0.0, bad False,
\* current_index 0) and sets last_request_time to 0; the new TokenTracker
\* reads the day's count back from its file; then chat_completion is called
\* on that client. What chat_completion raises is caught and turned into the
\* reply.
get_llm_response(gap) ==
    LET t0 == clock + gap
        since == t0 - 0
        t1 == IF since < min_request_interval THEN t0 + (min_request_interval - since) ELSE t0
    IN  /\ epc = "idle"
        /\ ncalls < MaxCalls
        /\ ncalls' = ncalls + 1
        /\ carried' = Carry(carried, keys_state)
        /\ keys_state' = [i \in DOMAIN keys_state |-> [cooldown_until |-> 0, bad |-> FALSE]]
        /\ current_index' = 0
        /\ IF ~check_limits(tokens_used_today)
           THEN /\ eres' = "TokenLimit"
                /\ clock' = t0
                /\ last_request_time' = 0
                /\ UNCHANGED epc
           ELSE /\ eres' = "none"
                /\ clock' = t1
                /\ last_request_time' = t1
                /\ epc' = "select"
        /\ UNCHANGED <<tokens_used_today, dlog, now, factVars, poolVars, frontVars,
                       logVars, selVars>>

\* Requests made through get_llm_response, one after the other.
ResponseNext ==
    \/ \E g \in IdleGaps : get_llm_response(g)
    \/ select_and_apply_key
    \/ \E exc \in Outcomes, d \in DispatchTimes, u \in UsageTokens : dispatch(exc, d, u)

\* -------------------------------------------- the retry loop, run for ever
\* The loop of chat_completion compares times only with each other, so a
\* behaviour depends on their differences alone. Below, one whole pass of
\* the loop (selection, remote call, except clause, rotation and sleep) is
\* one step, after which every stored time is moved back by the time the
\* pass took, and a time that no later comparison can tell from 0.0 (a
\* cooldown that has expired, a last request longer ago than the minimum
\* interval) becomes 0: the clock reads StartClock again and the number of
\* remote calls is not bounded.
MoveBack(x, shift, horizon) == IF x > horizon THEN x - shift ELSE 0

PassOutcome(exc, d, tokens) ==
    LET idx == get_available_key_index(keys_state, current_index, clock)
        t == clock + d
        h == HandlerOf(exc)
        stay == [ks |-> keys_state, index |-> idx, clock |-> t, pc |-> "idle",
                 raised |-> exc, tokens |-> 0]
    IN  IF idx = NoIndex
        THEN [stay EXCEPT !.index = current_index, !.clock = clock, !.raised = "NoValidKeys"]
        ELSE IF exc = "ok" THEN [stay EXCEPT !.tokens = tokens]
        ELSE IF h = "raise" THEN stay
        ELSE LET ks2 == HandlerMark(keys_state, idx, h, t)
                 o == RotateOutcome(ks2, idx, t)
             IN  [ks |-> ks2, index |-> o.index, clock |-> o.clock, pc |-> o.pc,
                  raised |-> o.raised, tokens |-> 0]

loop_pass(exc, d, tokens) ==
    LET o == PassOutcome(exc, d, tokens)
        shift == o.clock - StartClock
    IN  /\ epc = "select"
        /\ exc # "ok" => tokens = 0
        /\ keys_state' = [i \in DOMAIN o.ks |->
                            [o.ks[i] EXCEPT !.cooldown_until = MoveBack(@, shift, o.clock)]]
        /\ current_index' = o.index
        /\ last_request_time' = MoveBack(last_request_time, shift, o.clock - min_request_interval)
        /\ tokens_used_today' = tokens_used_today + o.tokens
        /\ clock' = StartClock
        /\ epc' = o.pc
        /\ eres' = IF o.raised = "none" THEN eres ELSE o.raised
        /\ UNCHANGED <<dlog, ncalls, notEngine>>

LoopNext ==
    \/ \E g \in IdleGaps : chat_completion_call(g)
    \/ \E exc \in Outcomes, d \in DispatchTimes, u \in UsageTokens : loop_pass(exc, d, u)

\* --------------------------------------------------------- specifications
FactsInit == now = 0 /\ FactsIdle /\ PoolIdle /\ EngineIdle /\ FrontIdle /\ LoggerIdle /\ SelectIdle /\ NothingCarried
PoolSpecInit == now = 0 /\ FactsIdle /\ PoolInit /\ EngineIdle /\ FrontIdle /\ LoggerIdle /\ SelectIdle /\ NothingCarried

\* The fact store, one caller at a time.
Spec == FactsInit /\ [][FactsNext]_vars
SpecAtTime == FactsInit /\ [][AtTimeNext]_vars
\* The fact store, callers on separate connections.
SpecConc == FactsInit /\ [][ConcNext]_vars
SpecReader == FactsInit /\ [][ReaderNext]_vars
SpecHistory == FactsInit /\ [][HistoryNext]_vars
\* The store from its construction on, with statements that may fail.
StoreSpecInit == now = 0 /\ StoreInit /\ PoolIdle /\ EngineIdle /\ FrontIdle /\ LoggerIdle /\ SelectIdle /\ NothingCarried
SpecStore == StoreSpecInit /\ [][StoreNext]_vars
\* The credential pool, one caller at a time.
SpecPool == PoolSpecInit /\ [][PoolNext]_vars
SpecRemove == PoolSpecInit /\ [][RemoveNext]_vars
SpecImport == PoolSpecInit /\ [][ImportNext]_vars
SpecSelect == PoolSpecInit /\ [][SelectNext]_vars
SpecAdd == PoolSpecInit /\ [][AddNext]_vars
SpecKeys == PoolSpecInit /\ [][KeysNext]_vars
\* The memory front-end over a new store.
SpecFront == FactsInit /\ [][FrontNext]_vars
SpecLogger == FactsInit /\ [][LoggerNext]_vars
\* One OpenAIClient, one thread.
EngineSpecInit == now = 0 /\ FactsIdle /\ PoolIdle /\ EngineInit /\ FrontIdle /\ LoggerIdle /\ SelectIdle /\ NothingCarried
SpecEngine == EngineSpecInit /\ [][EngineNext]_vars
SpecResponse == EngineSpecInit /\ [][ResponseNext]_vars
\* A call that has started keeps running: the thread is never suspended for
\* ever between two passes of the loop.
SpecLoop ==
    /\ EngineSpecInit
    /\ [][LoopNext]_vars
    /\ WF_vars(\E exc \in Outcomes, d \in DispatchTimes, u \in UsageTokens : loop_pass(exc, d, u))

\* ------------------------------------------------- fact store: the claims
LastRowOf(rs, k) == CHOOSE i \in RowsOf(rs, k) : \A j \in RowsOf(rs, k) : j <= i

AsCurrent(r) == [value |-> r.value, valid_from |-> r.valid_from, valid_until |-> NULL]

\* C1 (state part): a key that has rows has exactly one current row, and
\* get_current_fact returns the value of the last add_fact for that key.
C1_SingleCurrent ==
    /\ \A k \in Keys :
          RowsOf(rows, k) # {} =>
             /\ Cardinality(CurrentOf(rows, k)) = 1
             /\ get_current_fact(rows, k) = {AsCurrent(rows[LastRowOf(rows, k)])}
    /\ (ret.op = "get_current_fact" /\ ret.nrows > 0) =>
          /\ ret.ncur = 1
          /\ ret.fact = AsCurrent(rows[LastRowOf(rows, ret.key)])

\* C1 (frame part): a successful add_fact leaves the rows of every other key
\* as they were.
C1_OtherKeysKept ==
    (rows' # rows /\ ret'.op = "add_fact" /\ ret'.ok) =>
       \A i \in 1..Len(rows) :
          rows[i].key # ret'.key => (i <= Len(rows') /\ rows'[i] = rows[i])

\* C1: after any sequence of successful add_fact(s, a, v_i) calls exactly one
\* row of (s, a) has valid_until = NULL, get_current_fact(s, a) returns the
\* value of the last add_fact for that key, and the rows of the other keys
\* are unaffected.
C1_LastWriteIsCurrent == []C1_SingleCurrent /\ [][C1_OtherKeysKept]_vars

\* C1 witness: (user, color) was written twice with different values beside a
\* row of (user, x), and get_current_fact has just returned the second value.
C1_Witness ==
    /\ Len(rows) = 3
    /\ Cardinality(RowsOf(rows, <<"user", "color">>)) = 2
    /\ Cardinality(RowsOf(rows, <<"user", "x">>)) = 1
    /\ ret.op = "get_current_fact" /\ ret.key = <<"user", "color">>
    /\ ret.fact.value = "red"
    /\ \E i \in RowsOf(rows, <<"user", "color">>) :
          rows[i].value = "blue" /\ rows[i].valid_until # NULL

\* C2: a reader running while one add_fact is between its UPDATE commit and
\* its INSERT commit, on a key that has rows, sees exactly one current row:
\* never zero, never two.
C2_ReaderSeesOneCurrent ==
    (ret.op = "get_current_fact" /\ ret.nrows > 0) => ret.ncur = 1

\* C3: once both concurrent add_fact calls have returned, a key that has rows
\* has exactly one row with valid_until = NULL.
C3_OneCurrentAfterWriters ==
    (\A w \in Writers : wpc[w] = "idle") =>
       \A k \in Keys : RowsOf(rows, k) # {} => Cardinality(CurrentOf(rows, k)) = 1

\* What C4 expects get_fact_at_time to return at t when the key's rows are
\* r1 then r2.
ExpectedAt(r1, r2, t) ==
    IF t < r1.valid_from THEN NoFact
    ELSE IF t < r2.valid_from
         THEN [value |-> r1.value, valid_from |-> r1.valid_from,
               valid_until |-> r2.valid_from]
         ELSE AsCurrent(r2)

TwoRowsInOrder(k) ==
    /\ Cardinality(RowsOf(rows, k)) = 2
    /\ \E i, j \in RowsOf(rows, k) : i < j /\ rows[i].valid_from < rows[j].valid_from

FirstRowOf(rs, k) == CHOOSE i \in RowsOf(rs, k) : \A j \in RowsOf(rs, k) : i <= j

\* C4: after add_fact(s, a, v1, t1) then add_fact(s, a, v2, t2) with t1 < t2,
\* get_fact_at_time(s, a, t) returns v1 for t1 <= t < t2, v2 for t >= t2
\* (t = t2 included) and nothing for t < t1.
C4_PointInTime ==
    /\ \A k \in Keys : TwoRowsInOrder(k) =>
          \A t \in Times :
             get_fact_at_time(rows, k, t) =
                {ExpectedAt(rows[FirstRowOf(rows, k)], rows[LastRowOf(rows, k)], t)}
    /\ (ret.op = "get_fact_at_time" /\ TwoRowsInOrder(ret.key)) =>
          ret.fact = ExpectedAt(rows[FirstRowOf(rows, ret.key)],
                                rows[LastRowOf(rows, ret.key)], ret.at)

\* C4 witness: blue from 1, red from 2, and the query at exactly t2 = 2 has
\* just returned red.
C4_Witness ==
    /\ TwoRowsInOrder(<<"user", "color">>)
    /\ rows[FirstRowOf(rows, <<"user", "color">>)].valid_from = 1
    /\ rows[LastRowOf(rows, <<"user", "color">>)].valid_from = 2
    /\ ret.op = "get_fact_at_time" /\ ret.key = <<"user", "color">> /\ ret.at = 2
    /\ ret.fact.value = "red"
    /\ get_fact_at_time(rows, <<"user", "color">>, 0) = {NoFact}
    /\ \E f \in get_fact_at_time(rows, <<"user", "color">>, 1) : f.value = "blue"

\* ------------------------------------------------ credential pool: claims

\* A step of SpecPool that is a call of the named operation.
PoolCall(op) == pret'.op = op /\ now' = now
RowsWithSecret(ks, k) == {i \in 1..Len(ks) : ks[i].api_key = k}
LexLeq(a, b) ==
    \/ a.priority < b.priority
    \/ a.priority = b.priority /\ a.usage_count <= b.usage_count
\* The rows of the service that are active once the refresh pass has run.
ActiveAfterRefresh(service) ==
    {i \in 1..Len(keys) :
        /\ keys[i].service = service
        /\ \/ keys[i].status = "active"
           \/ /\ keys[i].status = "rate_limited"
              /\ keys[i].rate_limit_reset # NULL
              /\ keys[i].rate_limit_reset <= now}

\* C5: over every sequence of add_api_key calls each secret is stored in at
\* most one row; adding a secret that is already stored (under any service)
\* returns False and leaves the rows as they are; adding a new secret
\* returns True and appends exactly one row, active, with usage_count 0.
C5_SecretOnce == \A k \in Secrets : Cardinality(RowsWithSecret(keys, k)) <= 1
C5_AddStep ==
    PoolCall("add_api_key") =>
        IF RowsWithSecret(keys, pret'.api_key) # {}
        THEN /\ pret'.result = <<FALSE>>
             /\ keys' = keys
        ELSE /\ pret'.result = <<TRUE>>
             /\ Len(keys') = Len(keys) + 1
             /\ SubSeq(keys', 1, Len(keys)) = keys
             /\ keys'[Len(keys')].api_key = pret'.api_key
             /\ keys'[Len(keys')].service = pret'.service
             /\ keys'[Len(keys')].status = "active"
             /\ keys'[Len(keys')].usage_count = 0
C5_AddIsUnique == []C5_SecretOnce /\ [][C5_AddStep]_vars
\* A secret stored under one service was offered again under the other
\* and refused, with both secrets in the pool.
C5_Witness ==
    /\ pret.op = "add_api_key"
    /\ pret.result = <<FALSE>>
    /\ Len(keys) = 2
    /\ \E i \in 1..Len(keys) :
          keys[i].api_key = pret.api_key /\ keys[i].service # pret.service

\* C6: get_next_available_key(service) returns the secret of an active row
\* of the service whose (priority, usage_count) is lexicographically least
\* among the service's active rows after the refresh, and returns None
\* exactly when the service has no active row after the refresh.
C6_SelectStep ==
    PoolCall("get_next_available_key") =>
        LET S == ActiveAfterRefresh(pret'.service)
        IN  /\ (pret'.result = <<>>) <=> (S = {})
            /\ pret'.result # <<>> =>
                  \E i \in S :
                     /\ keys[i].api_key = pret'.result[1]
                     /\ \A j \in S : LexLeq(keys[i], keys[j])
C6_SelectsLeast == [][C6_SelectStep]_vars
\* The row returned has the lower priority value and the higher use count
\* of two active rows of the service.
C6_Witness ==
    /\ pret.op = "get_next_available_key"
    /\ \E i, j \in 1..Len(keys) :
          /\ pret.result = <<keys[i].api_key>>
          /\ keys[i].service = pret.service /\ keys[j].service = pret.service
          /\ keys[i].status = "active" /\ keys[j].status = "active"
          /\ keys[i].priority < keys[j].priority
          /\ keys[i].usage_count > 1 + keys[j].usage_count

\* The rate_limited rows of the service whose stored reset is at or before
\* the current time.
CooledDown(service) ==
    {i \in 1..Len(keys) :
        /\ keys[i].service = service
        /\ keys[i].status = "rate_limited"
        /\ keys[i].rate_limit_reset # NULL
        /\ keys[i].rate_limit_reset <= now}

\* C7: a credential marked rate-limited with a reset time at or before the
\* current time is stored as rate_limited with a reset that is at or before
\* the current time, and every such row is made active, its reset cleared,
\* by the next get_next_available_key / get_key_status / get_unmasked_keys
\* call for its service, which treats it as an active row: the selection
\* returns it or a row that orders no later, the listings show it active.
C7_MarkStep ==
    (/\ PoolCall("mark_key_rate_limited")
     /\ pret'.reset_time # NULL
     /\ pret'.reset_time <= now) =>
        \A i \in RowsWithSecret(keys', pret'.api_key) :
           /\ keys'[i].status = "rate_limited"
           /\ keys'[i].rate_limit_reset # NULL
           /\ keys'[i].rate_limit_reset <= now
C7_RefreshStep ==
    \A i \in CooledDown(pret'.service) :
       /\ (\/ PoolCall("get_next_available_key")
           \/ PoolCall("get_key_status")
           \/ PoolCall("get_unmasked_keys")) =>
             /\ keys'[i].status = "active"
             /\ keys'[i].rate_limit_reset = NULL
       /\ PoolCall("get_next_available_key") =>
             /\ pret'.result # <<>>
             /\ \E r \in ActiveAfterRefresh(pret'.service) :
                   /\ pret'.result = <<keys[r].api_key>>
                   /\ LexLeq(keys[r], keys[i])
       /\ PoolCall("get_unmasked_keys") =>
             \E n \in 1..Len(pret'.result) : pret'.result[n] = keys[i].api_key
       /\ PoolCall("get_key_status") =>
             \E n \in 1..Len(pret'.result) :
                /\ pret'.result[n].api_key = Mask(keys[i].api_key)
                /\ pret'.result[n].status = "active"
                /\ pret'.result[n].rate_limit_reset = NULL
C7_CooledDownIsReactivated == [][C7_MarkStep]_vars /\ [][C7_RefreshStep]_vars
\* A selection reactivated a row and returned it.
C7_Witness ==
    /\ pret.op = "get_next_available_key"
    /\ pret.result # <<>>
    /\ pret.result[1] \in pret.refreshed
    /\ \E i \in 1..Len(keys) :
          /\ keys[i].api_key = pret.result[1]
          /\ keys[i].status = "active"
          /\ keys[i].rate_limit_reset = NULL

\* C8: a row whose status is invalid keeps that status over every pool
\* operation, and no selection returns its secret.
C8_InvalidStep ==
    \A i \in 1..Len(keys) :
       keys[i].status = "invalid" =>
          /\ keys'[i].status = "invalid"
          /\ PoolCall("get_next_available_key") => pret'.result # <<keys[i].api_key>>
C8_InvalidIsTerminal == [][C8_InvalidStep]_vars

\* C20: remove_api_key(p) deletes exactly the rows whose priority is p,
\* leaves every other row as it is and in its place, and returns True if
\* and only if it deleted at least one row.
C20_RemoveStep ==
    PoolCall("remove_api_key") =>
        LET p == pret'.priority
            gone == {i \in 1..Len(keys) : keys[i].priority = p}
            kept == {i \in 1..Len(keys) : keys[i].priority # p}
        IN  /\ Len(keys') = Cardinality(kept)
            /\ \A i \in kept :
                  keys'[i - Cardinality({j \in gone : j < i})] = keys[i]
            /\ pret'.result = <<gone # {}>>
C20_RemoveByPriority == [][C20_RemoveStep]_vars
\* A removal that deleted a row and kept the row of the other priority.
C20_Witness ==
    /\ pret.op = "remove_api_key"
    /\ pret.result = <<TRUE>>
    /\ Len(keys) = 1
    /\ keys[1].priority # pret.priority

\* ---------------------------------------------- key rotation engine: claims

\* A step of SpecEngine in which chat_completion makes a remote call.
IsDispatch == dlog'.n = dlog.n + 1
\* A step in which the selection at the top of the loop runs.
IsSelect == epc = "select" /\ epc' # "select"
\* Both RuntimeErrors that report that no credential can be used.
ExhaustionErrors == {"NoValidKeys", "Exhausted"}
Usable(i) == ~keys_state[i].bad /\ keys_state[i].cooldown_until <= clock

\* C9: the credential of every remote call was, when it was selected, not
\* marked bad and past its cooldown; a credential marked bad is never used
\* for a remote call again; when no credential is usable at the selection,
\* the bad ones included, the call fails with the exhaustion error and no
\* remote call is made.
C9_SelectedIsUsable == epc = "dispatch" => Usable(current_index)
C9_SelectStep ==
    IsSelect =>
        IF \E i \in DOMAIN keys_state : Usable(i)
        THEN epc' = "dispatch" /\ Usable(current_index')
        ELSE epc' = "idle" /\ eres' \in ExhaustionErrors
C9_DispatchStep == IsDispatch => ~keys_state[current_index].bad /\ dlog'.idx = current_index
C9_BadStaysBad ==
    \A i \in DOMAIN keys_state : keys_state[i].bad => keys_state'[i].bad
C9_NoDispatchOnBadOrCooling ==
    /\ []C9_SelectedIsUsable
    /\ [][C9_SelectStep /\ C9_DispatchStep /\ C9_BadStaysBad]_vars
\* The key of the first remote call was marked bad afterwards; the next
\* call finds it bad and the other key cooling, and fails.
C9_Witness ==
    /\ eres = "NoValidKeys"
    /\ dlog.n > 0
    /\ keys_state[dlog.idx].bad
    /\ \E i \in DOMAIN keys_state : ~keys_state[i].bad /\ keys_state[i].cooldown_until > clock

\* C10: when a remote call fails with BadRequestError, chat_completion
\* returns to the caller with that error at once: the cursor stays, no
\* credential's cooldown_until or bad flag changes, and no further remote
\* call of this request follows.
C10_BadRequestStep ==
    (IsDispatch /\ dlog'.exc = "BadRequestError") =>
        /\ epc' = "idle"
        /\ eres' = "BadRequestError"
        /\ keys_state' = keys_state
        /\ current_index' = current_index
C10_BadRequestPropagates == [][C10_BadRequestStep]_vars

\* C11: when a remote call with credential k fails with AuthenticationError,
\* k is marked bad (and, bad flags never being cleared, stays bad), and the
\* next remote call of the same request, if any, uses another credential.
C11_AuthStep ==
    (IsDispatch /\ dlog'.exc = "AuthenticationError") =>
        keys_state'[dlog'.idx].bad
C11_AuthFailureMarksBad == [][C11_AuthStep]_vars

\* C12: any two consecutive remote calls of one client are sent at least
\* min_request_interval apart, whichever credentials they use.
C12_DispatchStep ==
    (IsDispatch /\ dlog.n > 0) => dlog'.at - dlog.at >= min_request_interval
C12_DispatchesThrottled == [][C12_DispatchStep]_vars

\* C13: every chat_completion call comes to an end, returning a response or
\* raising an error, whatever the remote service answers.
C13_CallTerminates == (epc = "select") ~> (epc = "idle")

\* C14: chat_completion fails with the exhaustion error only when every
\* credential of the client is marked bad (while a credential that is not
\* bad is cooling the client waits for it instead of failing).
C14_ExhaustionOnlyWhenAllBad ==
    eres \in ExhaustionErrors => \A i \in DOMAIN keys_state : keys_state[i].bad

NonBad == {i \in DOMAIN keys_state : ~keys_state[i].bad}

\* C15: with exactly one credential that is not bad, a remote call that
\* fails with RateLimitError sets the credential's cooldown_until to the
\* time of the failure plus the default cooldown and the call goes on; the
\* remote call that follows is sent no earlier than that cooldown_until,
\* and when it succeeds chat_completion returns its response.
C15_RateLimitStep ==
    (IsDispatch /\ Cardinality(NonBad) = 1 /\ dlog'.exc = "RateLimitError") =>
        /\ keys_state'[dlog'.idx].cooldown_until = dlog'.done + default_cooldown
        /\ epc' = "select"
        /\ eres' = "none"
C15_RetryStep ==
    (IsDispatch /\ Cardinality(NonBad) = 1 /\ dlog.exc = "RateLimitError") =>
        /\ dlog'.idx = dlog.idx
        /\ ncalls' = ncalls
        /\ dlog'.at >= keys_state[dlog.idx].cooldown_until
        /\ keys_state[dlog.idx].cooldown_until = dlog.done + default_cooldown
        /\ dlog'.exc = "ok" => (epc' = "idle" /\ eres' = "ok")
C15_RetryAfterCooldown == [][C15_RateLimitStep /\ C15_RetryStep]_vars
\* One call, one key: the first remote call was rate-limited, the second,
\* sent after the cooldown, succeeded.
C15_Witness ==
    /\ eres = "ok"
    /\ ncalls = 1
    /\ dlog.n = 2
    /\ NumKeys(keys_state) = 1
    /\ \E d \in DispatchTimes :
          keys_state[0].cooldown_until = last_request_time + d + default_cooldown
    /\ dlog.at >= keys_state[0].cooldown_until

\* ------------------------------------- fact store: files and errors, claims

\* C16: once LongTermMemory has been constructed on a path that held an
\* invalid store file, the backup path holds a copy of that file and the
\* store at the path is a new, empty one.
C16_OpenRecovers ==
    (ret.op = "init" /\ disk.found \in {"not_a_database", "damaged"}) =>
        /\ disk.backup = disk.found
        /\ disk.file = "store"
        /\ rows = <<>>

\* C17: an operation during which a statement raised a storage error
\* returns its failure value (False for add_fact, None for the getters) and
\* leaves a re-created, empty store.
C17_ErrorReturnsFailure ==
    ret.error =>
        /\ disk.file = "store"
        /\ rows = <<>>
        /\ ret.op = "add_fact" => ~ret.ok
        /\ ret.op \in {"get_current_fact", "get_fact_at_time"} => ret.fact = NoFact

\* ---------------------------------------------- memory front-end: claims

\* The input is "my X is Y": its attribute X and its value Y.
IsMyXisY(input) == Len(input) >= 4 /\ input[1] = "my" /\ IsAt(input) # {} /\ FirstIs(input) > 2
AttributeX(input) == SubSeq(input, 2, FirstIs(input) - 1)
ValueY(input) == SubSeq(input, FirstIs(input) + 1, Len(input))

\* C18: remember_fact("my X is Y") stores the fact (user, X, Y): after the
\* call the store's current row for (user, X) has the value Y.
C18_RememberStep ==
    (freply'.op = "remember_fact" /\ now' = now /\ IsMyXisY(freply'.input)) =>
        \E i \in CurrentOf(rows', <<"user", AttributeX(freply'.input)>>) :
           rows'[i].value = ValueY(freply'.input)
C18_MyXisYIsStored == [][C18_RememberStep]_vars

\* C19: the module-level recall_fact gives back a reply (or None) for every
\* input and never raises.
C19_RecallNeverRaises == freply.op = "recall_fact" => freply.kind # "raised"

\* ------------------------------------- credential pool: listing, the claims
\* The masked string m gives away all of the secret k: it is a prefix of k,
\* three dots and a suffix of k, and the two pieces together cover k.
Dots == <<".", ".", ".">>
GivesAway(m, k) ==
    \E a, b \in 0..Len(k) :
        /\ a + b >= Len(k)
        /\ m = SubSeq(k, 1, a) \o Dots \o SubSeq(k, Len(k) - b + 1, Len(k))

\* C21: for every stored secret, of every length, the api_key string of a
\* get_key_status entry leaves at least one character of the secret out.
C21_MaskHidesSecret ==
    pret.op = "get_key_status" =>
        \A n \in DOMAIN pret.result : \A i \in 1..Len(keys) :
            ~GivesAway(pret.result[n].api_key, keys[i].api_key)


\* ------------------------------------------------- chat logger: the claim
\* C22: every saved file's metadata total_messages equals the number of
\* entries of its messages list, under every interleaving of the worker's
\* save_session with log_message and start_new_session.
C22_SavedFileConsistent == saved.written => saved.total_messages = Len(saved.messages)

\* ------------------------------------- credential pool: import, the claim
\* The slots of a configuration that hold a value, and the first slot of a value.
Configured(config) == {i \in DOMAIN config : config[i] # NoKey}
FirstSlot(config, v) ==
    CHOOSE i \in Configured(config) :
        config[i] = v /\ \A j \in Configured(config) : config[j] = v => i <= j
\* The configured values the pool does not hold yet.
Fresh(ks, config) ==
    {config[i] : i \in {j \in Configured(config) : RowsWithSecret(ks, config[j]) = {}}}

\* C23: import_keys_from_env adds one row (service openai, priority = slot)
\* for each configured value the pool does not hold, the first slot of a
\* repeated value counting; it leaves the rows it found alone, returns the
\* number of rows added, and run again with the same configuration it adds
\* nothing and returns 0.
C23_ImportStep ==
    PoolCall("import_keys_from_env") =>
        LET config == pret'.config
            fresh == Fresh(keys, config)
        IN  /\ SubSeq(keys', 1, Len(keys)) = keys
            /\ Len(keys') = Len(keys) + Cardinality(fresh)
            /\ pret'.result = <<Cardinality(fresh)>>
            /\ \A v \in fresh :
                  \E i \in (Len(keys) + 1)..Len(keys') :
                      keys'[i] = NewKey("openai", v, FirstSlot(config, v))
            /\ (pret.op = "import_keys_from_env" /\ pret.config = config) =>
                  keys' = keys /\ pret'.result = <<0>>
HoldsAt(r, t) == r.valid_from <= t /\ (r.valid_until = NULL \/ r.valid_until > t)
RowsAt(rs, k, t) == {i \in RowsOf(rs, k) : HoldsAt(rs[i], t)}

\* C24: after any sequence of add_fact calls on a key, backdated ones
\* included, at most one row of the key holds at any time T, and
\* get_fact_at_time returns that row when there is one.
C24_OneRowAtATime ==
    /\ \A k \in Keys, t \in Times : Cardinality(RowsAt(rows, k, t)) <= 1
    /\ ret.op = "get_fact_at_time" =>
          \A i \in RowsAt(rows, ret.key, ret.at) :
              ret.fact = [value |-> rows[i].value, valid_from |-> rows[i].valid_from,
                          valid_until |-> rows[i].valid_until]

\* C25: a row that has been closed keeps its place, value, valid_from and
\* valid_until through every later add_fact call, on any key.
C25_ClosedStep ==
    ret'.op = "add_fact" =>
        \A i \in 1..Len(rows) :
            rows[i].valid_until # NULL => i <= Len(rows') /\ rows'[i] = rows[i]
C25_ClosedRowsAreKept == [][C25_ClosedStep]_vars

\* The rows of key k were written with valid_from never going down.
NonDecreasing(rs, k) ==
    \A i, j \in RowsOf(rs, k) : i < j => rs[i].valid_from <= rs[j].valid_from

\* C26: get_fact_history(s, a) has one entry for each successful
\* add_fact(s, a, .) made so far (a successful call adds one entry, and no
\* other add_fact call changes their number), newest valid_from first, and
\* when valid_from never went down in call order its first entry is the
\* current fact.
C26_History ==
    ret.op = "get_fact_history" =>
        /\ Len(ret.history) = Cardinality(RowsOf(rows, ret.key))
        /\ \A a, b \in 1..Len(ret.history) :
              a < b => ret.history[a].valid_from >= ret.history[b].valid_from
        /\ (NonDecreasing(rows, ret.key) /\ ret.history # <<>>) =>
              ret.history[1] \in get_current_fact(rows, ret.key)
C26_AddStep ==
    ret'.op = "add_fact" /\ <<rows, ret>> # <<rows', ret'>> =>
        \A k \in Keys :
            Cardinality(RowsOf(rows', k)) =
                Cardinality(RowsOf(rows, k)) + (IF ret'.ok /\ ret'.key = k THEN 1 ELSE 0)
C26_HistoryIsComplete == []C26_History /\ [][C26_AddStep]_vars

\* ------------------------------------- memory front-end: fall-through
\* The input matches no store pattern and no recall pattern of the front-end.
NoPattern(input) ==
    /\ \A p \in 1..Len(note_patterns) : Search(LowerAll(input), note_patterns[p]) = <<>>
    /\ \A p \in 1..Len(query_patterns) : Search(LowerAll(input), query_patterns[p]) = <<>>

\* C27: for an input that matches no store pattern and no recall pattern,
\* remember_fact returns the "not understood" sentinel and writes nothing,
\* and dispatch_command returns None and writes nothing.
C27_FallThroughStep ==
    (now' = now /\ NoPattern(freply'.input)) =>
        /\ freply'.op = "remember_fact" => freply'.kind = "nothing_detected" /\ rows' = rows
        /\ freply'.op = "dispatch_command" => freply'.kind = "None" /\ rows' = rows
C27_NoMatchFallsThrough == [][C27_FallThroughStep]_vars

\* ----------------------------- credential pool: cooldown, usage, the claims
\* The row is rate_limited and its cooldown ends later than the current time.
Cooling(r) ==
    r.status = "rate_limited" /\ r.rate_limit_reset # NULL /\ r.rate_limit_reset > now

\* C28: get_next_available_key and get_unmasked_keys return no credential
\* that is in its cooldown when they are called, and the refresh pass of a
\* call for one service leaves status and cooldown of the rows of the other
\* services as they are.
C28_SelectStep ==
    (PoolCall("get_next_available_key") \/ PoolCall("get_unmasked_keys")) =>
        \A n \in 1..Len(pret'.result) :
            \A i \in RowsWithSecret(keys, pret'.result[n]) : ~Cooling(keys[i])
C28_OtherServicesStep ==
    (\/ PoolCall("get_next_available_key")
     \/ PoolCall("get_unmasked_keys")
     \/ PoolCall("get_key_status")) =>
        /\ Len(keys') = Len(keys)
        /\ \A i \in 1..Len(keys) :
              keys[i].service # pret'.service =>
                 /\ keys'[i].status = keys[i].status
                 /\ keys'[i].rate_limit_reset = keys[i].rate_limit_reset
C28_NoSelectionInCooldown == [][C28_SelectStep /\ C28_OtherServicesStep]_vars

\* A selection passed over a row of its service that comes first in the
\* order and is in its cooldown.
C28_Witness ==
    /\ pret.op = "get_next_available_key"
    /\ pret.result # <<>>
    /\ \E i, j \in 1..Len(keys) :
          /\ keys[i].api_key = pret.result[1]
          /\ keys[j].service = pret.service /\ Cooling(keys[j])
          /\ keys[j].priority < keys[i].priority

\* C29: in every state of the pool reached through add_api_key,
\* get_next_available_key (with its refresh pass), mark_key_rate_limited and
\* remove_api_key, a row is rate_limited exactly when its rate_limit_reset
\* is set: a rate_limited row has one, an active row has none.
C29_StatusMatchesCooldown ==
    \A i \in 1..Len(keys) :
        /\ keys[i].status = "rate_limited" => keys[i].rate_limit_reset # NULL
        /\ keys[i].status = "active" => keys[i].rate_limit_reset = NULL
        /\ keys[i].rate_limit_reset # NULL => keys[i].status = "rate_limited"

\* A selection whose refresh pass reactivated a row while another row stays
\* in its cooldown.
C29_Witness ==
    /\ pret.op = "get_next_available_key"
    /\ \E i, j \in 1..Len(keys) :
          /\ keys[i].api_key \in pret.refreshed
          /\ keys[i].status = "active" /\ keys[i].rate_limit_reset = NULL
          /\ keys[j].status = "rate_limited" /\ keys[j].rate_limit_reset # NULL

\* Caller p's get_next_available_key returns the secret it read.
Returns(p) == sel[p].pc = "update" /\ sel'[p].pc = "idle"

\* C30: a row's usage_count goes up by one with each get_next_available_key
\* call that returns the row's credential, also when two calls run side by
\* side on connections of their own, and nothing else changes it: not a
\* selection that returns None, not get_key_status, not get_unmasked_keys;
\* a new row starts at 0.
C30_UsageStep ==
    /\ Len(keys') >= Len(keys)
    /\ \A i \in 1..Len(keys) :
          keys'[i].usage_count = keys[i].usage_count +
             (IF \E p \in Selectors : Returns(p) /\ sel[p].api_key = keys[i].api_key
              THEN 1 ELSE 0)
    /\ \A i \in (Len(keys) + 1)..Len(keys') : keys'[i].usage_count = 0
    /\ \A p \in Selectors :
          Returns(p) => \E i \in 1..Len(keys) : keys[i].api_key = sel[p].api_key
C30_UsageCountsSelections == [][C30_UsageStep]_vars

\* One caller has returned a row's credential while the other, which read
\* the same row, has its UPDATE still to run.
C30_Witness ==
    \E p, q \in Selectors :
        /\ sel[p].pc = "idle" /\ sel[q].pc = "update"
        /\ pret.op = "get_next_available_key"
        /\ pret.api_key = sel[q].api_key
        /\ keys[sel[q].id].usage_count = 1

\* ------------------------------------- key rotation engine: later claims
\* C31: a credential that an earlier get_llm_response request marked bad, or
\* put on cooldown until T, is not dispatched with by a later
\* get_llm_response request (before T in the cooldown case).
C31_DispatchStep ==
    IsDispatch =>
        /\ ~carried[dlog'.idx].bad
        /\ carried[dlog'.idx].cooldown_until <= dlog'.at
C31_ExclusionsPersist == [][C31_DispatchStep]_vars

\* ------------------------------------ credential pool: adds side by side
\* C32: with add_api_key calls carrying the same secret running side by
\* side, and selections among them, the pool never holds two rows for one
\* secret, and a call returns True only if no row held the secret when it
\* returned (so one of the calls returns True, the others False).
C32_OneRowStep ==
    \A p \in Selectors :
        (sel[p].pc = "insert" /\ sel'[p].pc = "idle") =>
            RowsWithSecret(keys, sel[p].api_key) = {}
C32_ConcurrentAddIsUnique ==
    /\ [](\A k \in Secrets : Cardinality(RowsWithSecret(keys, k)) < 2)
    /\ [][C32_OneRowStep]_vars

\* ------------------------------------------- front-end: the key commands
\* The secret a word of the command stands for.
SecretOf(w) == IF w = "sk-b" THEN KeyB ELSE KeyA

\* C33: for an input "add api key [<service>] <secret> [priority <n>]",
\* dispatch_command adds the parsed (service, secret, priority) to the pool
\* and returns the 'Added' message when the pool did not hold the secret and
\* the 'already exists' message when it did.
C33_AddStep ==
    (freply'.op = "dispatch_command" /\ freply'.input \in KeyInputs /\ freply' # freply) =>
        LET parts == SubSeq(freply'.input, 4, Len(freply'.input))
            p == parse_add_api_key(parts)
            a == AddKey(keys, p.service, SecretOf(p.api_key), p.priority)
        IN  p.error = "" =>
                /\ keys' = a.keys
                /\ freply'.kind = IF a.added THEN "added" ELSE "exists"
C33_AddCommandAdds == [][C33_AddStep]_vars

\* ------------------------------------- key rotation engine: failed calls
\* The failures of the rate-limit clause, of the transient clause and of the
\* catch-all clause, with the cooldown each clause passes on.
CoolingFailures == {"RateLimitError", "APIError", "APIConnectionError",
                    "APITimeoutError", "ValueError"}
CooldownFor(exc) ==
    CASE exc = "RateLimitError" -> default_cooldown
      [] exc = "ValueError" -> UnexpectedCooldown
      [] OTHER -> TransientCooldown

\* C34: a remote call with credential k that fails with a rate-limit, a
\* transient (API, connection, timeout) or an unexpected failure sets k's
\* cooldown_until to the time of the failure plus the default cooldown, 10
\* seconds, or the short cooldown; k's bad flag, every other credential's
\* cooldown_until and bad flag, and the durable pool stay as they were.
C34_FailureStep ==
    (IsDispatch /\ dlog'.exc \in CoolingFailures) =>
        /\ keys_state' = [keys_state EXCEPT ![dlog'.idx].cooldown_until =
                              dlog'.done + CooldownFor(dlog'.exc)]
        /\ ~keys_state'[dlog'.idx].bad
        /\ keys' = keys
C34_FailureTouchesOneKey == [][C34_FailureStep]_vars
\* Two keys: the last remote call timed out and its key is cooling for 10
\* seconds, while the other key, rate-limited before, keeps its own cooldown.
C34_Witness ==
    /\ NumKeys(keys_state) = 2
    /\ dlog.exc = "APITimeoutError"
    /\ keys_state[dlog.idx].cooldown_until = dlog.done + TransientCooldown
    /\ \A i \in DOMAIN keys_state : ~keys_state[i].bad
    /\ \E j \in DOMAIN keys_state :
          /\ j # dlog.idx
          /\ keys_state[j].cooldown_until > 0
          /\ keys_state[j].cooldown_until # keys_state[dlog.idx].cooldown_until

\* The handler of the except clause that names the class of the failure
\* itself (the catch-all clause for a class no clause names).
OwnHandler(exc) ==
    LET named == {i \in 1..Len(ExceptClauses) : exc \in ExceptClauses[i].classes}
    IN  IF named = {} THEN "unexpected"
        ELSE ExceptClauses[CHOOSE i \in named : TRUE].handler

\* C35: every failure of a remote call is handled by the clause written for
\* its own class: an authentication failure marks the credential bad, a
\* malformed request is raised to the caller with no credential touched, and
\* neither gets the cooldown of the transient clause.
C35_OwnHandlerStep ==
    (IsDispatch /\ dlog'.exc # "ok") =>
        IF OwnHandler(dlog'.exc) = "raise"
        THEN eres' = dlog'.exc /\ epc' = "idle" /\ keys_state' = keys_state
        ELSE keys_state' = HandlerMark(keys_state, dlog'.idx, OwnHandler(dlog'.exc), dlog'.done)
C35_HandledByOwnClause == [][C35_OwnHandlerStep]_vars

\* ------------------------------------------ fact store: the later claims
\* C36: an add_fact call that returns False leaves the rows of the store
\* as they were before the call: no row, of any key, is closed or removed.
C36_FailedAddStep ==
    (ret'.op = "add_fact" /\ ~ret'.ok) => rows' = rows
C36_FailedAddChangesNothing == [][C36_FailedAddStep]_vars

\* C37: every closed row of the store has valid_from <= valid_until,
\* whatever add_fact calls were made, those with a valid_from earlier than
\* the valid_from of the row current at the call included.
C37_ClosedRowsWellFormed ==
    \A i \in 1..Len(rows) :
        rows[i].valid_until # NULL => rows[i].valid_from <= rows[i].valid_until

\* ------------------------------------------ chat logger: the worker threads
\* C38: at most one auto-save worker thread is alive at any time, whatever
\* start_new_session and stop calls were made, and once stop has returned no
\* worker writes an autosave file (until a session is started again).
C38_NoLateSaveStep ==
    (main = "stopped" /\ main' = "stopped") =>
        \A w \in DOMAIN worker : ~(worker[w].pc = "dump" /\ worker'[w].pc # "dump")
C38_OneWorkerNoLateSave ==
    /\ [](Cardinality(Alive(worker)) <= 1)
    /\ [][C38_NoLateSaveStep]_vars

\* ---------------------------------- key rotation engine: the token limit
\* C39: a chat_completion call made with tokens_used_today at or above the
\* daily limit raises the token-limit error at once: no throttle sleep, no
\* selection, no remote call, and the cursor, every credential's
\* cooldown_until and bad flag, last_request_time and the token counter stay
\* as they were.
C39_TokenLimitStep ==
    (ncalls' = ncalls + 1 /\ tokens_used_today >= daily_token_limit) =>
        /\ eres' = "TokenLimit"
        /\ epc' = "idle"
        /\ clock' - clock \in IdleGaps
        /\ dlog' = dlog
        /\ keys_state' = keys_state
        /\ current_index' = current_index
        /\ last_request_time' = last_request_time
        /\ tokens_used_today' = tokens_used_today
C39_TokenLimitFirst == [][C39_TokenLimitStep]_vars
\* A call was refused for the token limit by a client that had made no
\* remote call, one of its keys having been marked bad before.
C39_Witness ==
    /\ eres = "TokenLimit"
    /\ tokens_used_today = daily_token_limit
    /\ ncalls > 0
    /\ dlog = NoDispatch
    /\ last_request_time = 0
    /\ clock > StartClock
    /\ \E i \in DOMAIN keys_state : keys_state[i].bad

============================================================================
